---- MODULE Spec2Model ----
(***************************************************************************)
(* Model of the real-time collaboration engine of plotweaver-web-enhanced: *)
(* the lock and conflict engine (bff/server/main.py), the connection       *)
(* registry EnhancedConnectionManager (bff/server/main.py), the websocket  *)
(* endpoint with its rate limiter (src/auth/rate_limiter.py) and credential*)
(* manager (src/auth/jwt_auth.py), and the bounded collections             *)
(* (src/server/bounded_collections.py).                                    *)
(*                                                                         *)
(* Timestamps, free-text fields (reason, id, type, sharedWith) and message *)
(* payloads are not read by any modelled branch and are left out.          *)
(***************************************************************************)
EXTENDS Integers, Sequences, FiniteSets, TLC

VARIABLES
    project_locks,      \* main.py:369  project id -> dict component id -> ComponentLock
    project_conflicts,  \* main.py:370  project id -> list of LockConflict
    lock_history,       \* main.py:371  project id -> list of audit entries
    last,               \* the most recent lock-engine request and its response
    nreq,               \* number of lock-engine requests handled so far
    manager,            \* main.py:327  the EnhancedConnectionManager and its four maps
    tasks,              \* the liveness-probe tasks created so far, by task id
    transport,          \* per connection id: its WebSocket's state and close code
    accepting,          \* connection ids suspended in connect() at await websocket.accept()
    reg_last,           \* the most recent registry call
    nsteps,             \* number of registry and endpoint steps taken so far
    limiter,            \* rate_limiter.connection_limiter (rate_limiter.py:95-99)
    auth,               \* websocket_auth_manager (jwt_auth.py:93-96)
    ws_pc,              \* per connection id: where its endpoint coroutine stands
    ws_attempt,         \* per connection id: the attempt's address, token and outcome
    msg_limiter,        \* rate_limiter.message_limiter (rate_limiter.py:21-25)
    rate_last,          \* the most recent message-rate check and its result
    allowed_log,        \* per connection id: the times of the checks that returned allowed
    violation_log,      \* per connection id: the time and cooldown of each violation
    out,                \* the most recent send or broadcast of the manager
    bc,                 \* the broadcast_to_project coroutine in progress, if any
    conn_last,          \* the most recent call of the connection limiter made on its own
    attempt_log,        \* per address, the times of all its connection-rate checks
    coll,               \* a bounded collection on its own: its kind, capacity, ttl and content
    coll_last,          \* the most recent operation on it
    ideal,              \* the keys used on it and not removed since, least recent first
    born,               \* per key, the time of its last assignment
    last_activity,      \* per connection id, the time of its last connect, subscribe
                        \* or inbound message
    sweep_last,         \* the most recent presence sweep
    auth_last,          \* the most recent call of the authenticator made on its own
    bound,              \* per connection id, the permissions of its last successful
                        \* authentication not yet followed by a disconnect
    inbound_log,        \* per connection id, the times of the messages it has sent
    loop_last,          \* the most recent message handled by the endpoint loop
    shadow_limiter,     \* a message limiter given the same checks and never swept
    shadow_last,        \* the result of the most recent check on the shadow limiter
    calls,              \* the lock-set calls issued so far, with their broadcast loops
    received,           \* per connection id, the calls whose broadcast it has received
    now                 \* time.time(), in seconds

lockVars == <<project_locks, project_conflicts, lock_history, last, nreq>>

regVars == <<manager, tasks, transport, accepting, reg_last, nsteps>>

wsVars == <<limiter, auth, ws_pc, ws_attempt>>

rateVars == <<msg_limiter, rate_last, allowed_log, violation_log>>

sendVars == <<out, bc>>

connVars == <<conn_last, attempt_log>>

authVars == <<auth_last, bound>>

collVars == <<coll, coll_last, ideal, born>>

sweepVars == <<last_activity, sweep_last>>

loopVars == <<inbound_log, loop_last>>

shadowVars == <<shadow_limiter, shadow_last>>

orderVars == <<calls, received>>

extVars == <<loopVars, shadowVars, orderVars>>

vars == <<project_locks, project_conflicts, lock_history, last, nreq,
          manager, tasks, transport, accepting, reg_last, nsteps,
          limiter, auth, ws_pc, ws_attempt,
          msg_limiter, rate_last, allowed_log, violation_log, out, bc, conn_last, attempt_log,
          auth_last, bound, coll, coll_last, ideal, born, last_activity, sweep_last,
          inbound_log, loop_last, shadow_limiter, shadow_last, calls, received, now>>

----------------------------------------------------------------------------
(* Bounds and input universes                                              *)

MaxRequests == 3
MaxBulkRequests == 2
MaxEngineRequests == 2
MaxBulkItems == 2
MaxIds == 2
MaxTasks == 3
MaxTicks == 3
MaxRegSteps == 6

\* capacities, scaled down from the program's 1000 / 1000 / 100
MAX_CONNECTIONS == 2
MAX_PROJECTS == 2
MAX_SUBSCRIBERS == 2

\* RateLimitConfig.max_connections_per_ip, scaled down from the program's 10
MAX_CONNECTIONS_PER_IP == 1
MaxWsSteps == 6

\* RateLimitConfig.max_messages_per_minute, scaled down from the program's 60
MAX_MESSAGES_PER_MINUTE == 2
MaxMsgSteps == 6
MaxRateSteps == 8
MaxConnSteps == 5
MaxAuthSteps == 4
MaxCollSteps == 6
MaxSweepSteps == 6
MaxLoopSteps == 6
MaxShadowSteps == 7
MaxCalls == 2
MaxOrderSteps == 12
MaxCap == 2
MaxRateTime == 130

\* rate_limiter.py:43, :64, :60, :15 and :74
WINDOW == 60
FIRST_COOLDOWN == 10
SECOND_COOLDOWN == 60
COOLDOWN_PERIOD == 300
SWEEP_HORIZON == 3600

\* rate_limiter.py:115 and :122, jwt_auth.py:29
ATTEMPT_WINDOW == 60
BLOCK_SECONDS == 300
TOKEN_EXPIRY == 3600
REFRESH_THRESHOLD == 300

\* constants.py:4
HEARTBEAT_TIMEOUT == 30

\* the close codes: main.py:95, :682, :687, and :208 / :700
CAPACITY_CLOSE == 1013
RATE_LIMIT_CLOSE == 1013
AUTH_CLOSE == 4001
SIZE_CLOSE == 1009

\* time-to-live of the manager's maps, in seconds (main.py:61-67)
ACTIVE_TTL == 3600
SUBSCRIBERS_TTL == 7200
PRESENCE_TTL == 1800
NO_TTL == 0
TTL_SECONDS == 2

\* the clock advances in steps of this many seconds
TimeStep == 3600

Clients == {"a", "b", "c"}
Addresses == {"ip1", "ip2", "ip3"}
\* the connection ids that take part in the sends
Peers == {"a", "b"}

Projects == {"p1", "p2"}
Components == {"c1", "c2"}
Users == {"alice", "bob"}
Levels == {"soft", "frozen"}
ConflictIds == {"k1"}
BulkUser == "current-user"
None == "none"

\* ComponentLock as sent in a request body (main.py:331-340)
ComponentLock == [componentId : Components, level : Levels,
                  lockedBy : Users, canOverride : BOOLEAN]

NoLock == [componentId |-> None, level |-> None, lockedBy |-> None, canOverride |-> FALSE]

\* BulkLockOperation (main.py:361-365)
SeqsUpTo(S, n) == UNION {[1..k -> S] : k \in 0..n}

BulkKinds == {<<"lock", "soft">>, <<"lock", None>>, <<"unlock", None>>,
              <<"change_level", "soft">>}

\* the operations that list at most n component ids (and at least one)
BulkLockOperation(n) ==
    {[type |-> k[1], lockLevel |-> k[2], componentIds |-> ids] :
        k \in BulkKinds, ids \in SeqsUpTo(Components, n) \ {<<>>}}

RECURSIVE TotalIds(_)
TotalIds(operations) ==
    IF operations = <<>> THEN 0
    ELSE Len(Head(operations).componentIds) + TotalIds(Tail(operations))

\* the operation lists that list at most n component ids in all
RECURSIVE BulkRequestsUpTo(_)
BulkRequestsUpTo(n) ==
    {<<>>} \cup UNION {{<<op>> \o r : r \in BulkRequestsUpTo(n - Len(op.componentIds))} :
                        op \in BulkLockOperation(n)}

BulkRequests == BulkRequestsUpTo(MaxBulkItems)

\* request bodies whose componentId names the component of the path
WellFormedLock(c) == {l \in ComponentLock : l.componentId = c}

----------------------------------------------------------------------------
(* Python dict as a set of <<key, value>> pairs                            *)

DictHas(d, k) == \E e \in d : e[1] = k

DictGet(d, k) == (CHOOSE e \in d : e[1] = k)[2]

DictKeys(d) == {e[1] : e \in d}

DictSetKeepOld(d, k, v) == d \cup {<<k, v>>}

\* d[k] = v : the pair for k, if any, is replaced
DictSet(d, k, v) == {e \in d : e[1] # k} \cup {<<k, v>>}

\* del d[k]
DictDel(d, k) == {e \in d : e[1] # k}

\* project_locks.get(project_id, {})
LocksOf(p) == IF p \in DOMAIN project_locks THEN project_locks[p] ELSE {}

\* lock_history.get(project_id, [])
HistoryOf(p) == IF p \in DOMAIN lock_history THEN lock_history[p] ELSE <<>>

\* project_conflicts.get(project_id, [])
ConflictsOf(p) == IF p \in DOMAIN project_conflicts THEN project_conflicts[p] ELSE <<>>

\* m[k] = v on an outer dict modelled as a function
Put(m, k, v) == [x \in DOMAIN m \cup {k} |-> IF x = k THEN v ELSE m[x]]

EmptyMap == [x \in {} |-> {}]

----------------------------------------------------------------------------
(* The request/response record                                             *)

NoLast == [op |-> "init", project |-> None, component |-> None,
           lock |-> NoLock, old |-> NoLock, before |-> {}, operations |-> <<>>,
           components |-> <<>>, conflict |-> None, found |-> FALSE,
           affected |-> <<>>, conflicts |-> <<>>, can_proceed |-> FALSE,
           locks |-> {}, status |-> None, broadcast |-> <<>>]

OldLock(p, c) == IF DictHas(LocksOf(p), c) THEN DictGet(LocksOf(p), c) ELSE NoLock

----------------------------------------------------------------------------
(* PUT /api/projects/{project_id}/locks/{component_id}                     *)

AuditEntry(c, lock) ==
    [action |-> "lock_updated", componentId |-> c, lock |-> lock, user |-> lock.lockedBy]

update_component_lock_conflict(p, c, lock) ==
    /\ project_locks' = Put(project_locks, p, DictSet(LocksOf(p), c, lock))
    /\ lock_history' = Put(lock_history, p, Append(HistoryOf(p), AuditEntry(c, lock)))
    /\ last' = [NoLast EXCEPT !.op = "update_component_lock", !.project = p,
                              !.component = c, !.lock = lock, !.old = OldLock(p, c),
                              !.before = LocksOf(p),
                              !.status = "updated",
                              !.broadcast = <<[channel |-> "locks", project |-> p]>>]
    /\ nreq' = nreq + 1
    /\ project_conflicts' =
          IF OldLock(p, c) # NoLock /\ ~OldLock(p, c).canOverride
                /\ OldLock(p, c).lockedBy # lock.lockedBy
          THEN Put(project_conflicts, p, Append(ConflictsOf(p), [id |-> "k1"]))
          ELSE project_conflicts

update_component_lock(p, c, lock) ==
    /\ project_locks' = Put(project_locks, p, DictSet(LocksOf(p), c, lock))
    /\ lock_history' = Put(lock_history, p, Append(HistoryOf(p), AuditEntry(c, lock)))
    /\ last' = [NoLast EXCEPT !.op = "update_component_lock", !.project = p,
                              !.component = c, !.lock = lock, !.old = OldLock(p, c),
                              !.before = LocksOf(p),
                              !.status = "updated",
                              !.broadcast = <<[channel |-> "locks", project |-> p]>>]
    /\ nreq' = nreq + 1
    /\ UNCHANGED project_conflicts

----------------------------------------------------------------------------
(* POST /api/projects/{project_id}/locks/bulk                              *)

BulkLock(c, level) ==
    [componentId |-> c, level |-> level, lockedBy |-> BulkUser, canOverride |-> TRUE]

\* the (operation, component id) pairs in the order the two nested loops visit them
RECURSIVE BulkItems(_)
BulkItems(operations) ==
    IF operations = <<>> THEN <<>>
    ELSE LET op == Head(operations)
         IN [i \in 1..Len(op.componentIds) |->
                [type |-> op.type, lockLevel |-> op.lockLevel,
                 componentId |-> op.componentIds[i]]]
            \o BulkItems(Tail(operations))

\* one pass of the loop body (main.py:508-524) on the accumulator
\* [locks |-> inner dict, updated |-> updated_components]
BulkStep(acc, item) ==
    IF item.type = "lock" /\ item.lockLevel # None
    THEN [locks |-> DictSet(acc.locks, item.componentId,
                            BulkLock(item.componentId, item.lockLevel)),
          updated |-> Append(acc.updated, item.componentId)]
    ELSE IF item.type = "unlock"
    THEN IF DictHas(acc.locks, item.componentId)
         THEN [locks |-> DictDel(acc.locks, item.componentId),
               updated |-> Append(acc.updated, item.componentId)]
         ELSE acc
    ELSE acc

RECURSIVE BulkLoopAbort(_, _)
BulkLoopAbort(acc, items) ==
    IF items = <<>> \/ BulkStep(acc, Head(items)) = acc THEN acc
    ELSE BulkLoopAbort(BulkStep(acc, Head(items)), Tail(items))

RECURSIVE BulkLoop(_, _)
BulkLoop(acc, items) ==
    IF items = <<>> THEN acc
    ELSE BulkLoop(BulkStep(acc, Head(items)), Tail(items))

bulk_update_locks(p, operations) ==
    /\ LET res == BulkLoop([locks |-> LocksOf(p), updated |-> <<>>], BulkItems(operations))
       IN /\ project_locks' = Put(project_locks, p, res.locks)
          /\ last' = [NoLast EXCEPT !.op = "bulk_update_locks", !.project = p,
                                    !.operations = operations,
                                    !.before = LocksOf(p),
                                    !.affected = res.updated,
                                    !.status = "bulk_updated",
                                    !.broadcast = <<[channel |-> "locks", project |-> p]>>]
    /\ nreq' = nreq + 1
    /\ UNCHANGED <<project_conflicts, lock_history>>

----------------------------------------------------------------------------
(* GET /api/projects/{project_id}/locks                                    *)

get_project_locks(p) ==
    /\ last' = [NoLast EXCEPT !.op = "get_project_locks", !.project = p,
                              !.locks = LocksOf(p), !.status = "ok"]
    /\ nreq' = nreq + 1
    /\ UNCHANGED <<project_locks, project_conflicts, lock_history>>

----------------------------------------------------------------------------
(* POST /api/projects/{project_id}/locks/check-conflicts                   *)

ConflictFor(p, c) ==
    LET existing_lock == DictGet(LocksOf(p), c)
    IN [component_id |-> c, existing_lock |-> existing_lock,
        can_override |-> existing_lock.canOverride /\ existing_lock.level # "frozen"]

RECURSIVE ConflictsIn(_, _)
ConflictsIn(p, components) ==
    IF components = <<>> THEN <<>>
    ELSE (IF DictHas(LocksOf(p), Head(components))
          THEN <<ConflictFor(p, Head(components))>> ELSE <<>>)
         \o ConflictsIn(p, Tail(components))

\* main.py:595
CanProceed(conflicts) == Len(conflicts) = 0

check_lock_conflicts(p, components) ==
    /\ LET conflicts == ConflictsIn(p, components)
       IN last' = [NoLast EXCEPT !.op = "check_lock_conflicts", !.project = p,
                                 !.components = components,
                                 !.conflicts = conflicts,
                                 !.can_proceed = CanProceed(conflicts),
                                 !.status = "ok"]
    /\ nreq' = nreq + 1
    /\ UNCHANGED <<project_locks, project_conflicts, lock_history>>

----------------------------------------------------------------------------
(* POST /api/projects/{project_id}/conflicts/{conflict_id}/resolve         *)

HasConflict(p, k) == \E i \in 1..Len(ConflictsOf(p)) : ConflictsOf(p)[i].id = k

RemoveConflict(cs, k) == SelectSeq(cs, LAMBDA c : c.id # k)

resolve_conflict(p, k) ==
    /\ IF p \in DOMAIN project_conflicts
       THEN /\ project_conflicts' = Put(project_conflicts, p,
                                        RemoveConflict(project_conflicts[p], k))
            /\ last' = [NoLast EXCEPT !.op = "resolve_conflict", !.project = p,
                                      !.conflict = k, !.found = HasConflict(p, k),
                                      !.status = "resolved",
                                      !.broadcast = <<[channel |-> "conflicts", project |-> p]>>]
       ELSE /\ project_conflicts' = project_conflicts
            /\ last' = [NoLast EXCEPT !.op = "resolve_conflict", !.project = p,
                                      !.conflict = k, !.found = FALSE,
                                      !.status = "resolved"]
    /\ nreq' = nreq + 1
    /\ UNCHANGED <<project_locks, lock_history>>

----------------------------------------------------------------------------
(* GET /api/projects/{project_id}/conflicts and the conflicts part of a    *)
(* sync response                                                           *)

get_project_conflicts(p) ==
    /\ last' = [NoLast EXCEPT !.op = "get_project_conflicts", !.project = p,
                              !.conflicts = ConflictsOf(p), !.status = "ok"]
    /\ nreq' = nreq + 1
    /\ UNCHANGED <<project_locks, project_conflicts, lock_history>>

\* conflicts_data of the sync-request branch of the endpoint loop
conflicts_data(p) == ConflictsOf(p)

----------------------------------------------------------------------------
(* bounded_collections.py: BoundedDict and BoundedSet                      *)
(*                                                                         *)
(* A BoundedDict is [keys, val, ts, order]: keys is _data's keys in dict   *)
(* (insertion) order, val its values, ts is _timestamps, order is          *)
(* _access_order.  max_size and ttl_seconds are passed to each operator;   *)
(* ttl = NO_TTL stands for ttl_seconds = None.                             *)

EmptyFn == [x \in {} |-> 0]

Range(s) == {s[i] : i \in 1..Len(s)}

\* deque.remove(x) / list without x
SeqRemove(s, x) == SelectSeq(s, LAMBDA y : y # x)

Restrict(f, S) == [x \in S |-> f[x]]

BD_New == [keys |-> <<>>, val |-> EmptyFn, ts |-> EmptyFn, order |-> <<>>]

BD_Has(d, k) == k \in Range(d.keys)

\* BoundedDict.__delitem__
BD_Del(d, k) ==
    IF BD_Has(d, k)
    THEN [keys |-> SeqRemove(d.keys, k),
          val |-> Restrict(d.val, DOMAIN d.val \ {k}),
          ts |-> Restrict(d.ts, DOMAIN d.ts \ {k}),
          order |-> SeqRemove(d.order, k)]
    ELSE d

RECURSIVE BD_DelAll(_, _)
BD_DelAll(d, ks) ==
    IF ks = {} THEN d
    ELSE LET k == CHOOSE x \in ks : TRUE IN BD_DelAll(BD_Del(d, k), ks \ {k})

\* BoundedDict._cleanup_expired
BD_Cleanup(d, ttl, t) ==
    IF ttl = NO_TTL THEN d
    ELSE BD_DelAll(d, {k \in DOMAIN d.ts : t - d.ts[k] > ttl})

\* BoundedDict._evict_oldest
BD_EvictOldest(d) ==
    IF d.order # <<>>
    THEN LET oldest_key == Head(d.order)
         IN [keys |-> SeqRemove(d.keys, oldest_key),
             val |-> Restrict(d.val, DOMAIN d.val \ {oldest_key}),
             ts |-> Restrict(d.ts, DOMAIN d.ts \ {oldest_key}),
             order |-> Tail(d.order)]
    ELSE d

\* while len(self._data) >= self.max_size: self._evict_oldest()
\* (with an empty _access_order the loop makes no progress; it is cut here)
RECURSIVE BD_EvictLoop(_, _)
BD_EvictLoop(d, max) ==
    IF Len(d.keys) >= max /\ d.order # <<>>
    THEN BD_EvictLoop(BD_EvictOldest(d), max)
    ELSE d

\* BoundedDict.__setitem__
BD_Set(d, max, ttl, t, k, v) ==
    LET d1 == IF BD_Has(d, k) THEN [d EXCEPT !.order = SeqRemove(d.order, k)] ELSE d
        d2 == BD_EvictLoop(d1, max)
    IN [keys |-> IF BD_Has(d2, k) THEN d2.keys ELSE Append(d2.keys, k),
        val |-> Put(d2.val, k, v),
        ts |-> IF ttl = NO_TTL THEN d2.ts ELSE Put(d2.ts, k, t),
        order |-> Append(d2.order, k)]

\* BoundedDict.__getitem__ on a key that is present after the cleanup: the
\* dictionary it leaves (the value is d.val[k])
BD_Touch(d, ttl, t, k) ==
    LET d1 == BD_Cleanup(d, ttl, t)
    IN [d1 EXCEPT !.order = Append(SeqRemove(d1.order, k), k)]

\* A BoundedSet is [data, order]: _data and _access_order
BS_New == [data |-> {}, order |-> <<>>]

RECURSIVE BS_EvictLoop(_, _)
BS_EvictLoop(s, max) ==
    IF Cardinality(s.data) >= max /\ s.order # <<>>
    THEN BS_EvictLoop([data |-> s.data \ {Head(s.order)}, order |-> Tail(s.order)], max)
    ELSE s

\* BoundedSet.add
BS_Add(s, max, item) ==
    IF item \in s.data
    THEN [s EXCEPT !.order = Append(SeqRemove(s.order, item), item)]
    ELSE LET s1 == BS_EvictLoop(s, max)
         IN [data |-> s1.data \cup {item}, order |-> Append(s1.order, item)]

\* BoundedSet.discard
BS_Discard(s, item) ==
    IF item \in s.data
    THEN [data |-> s.data \ {item}, order |-> SeqRemove(s.order, item)]
    ELSE s

----------------------------------------------------------------------------
(* bounded_collections.py: LRUCache                                        *)
(*                                                                         *)
(* An LRUCache is [keys, val]: the keys of the OrderedDict in its order,   *)
(* and its values.                                                         *)

LRU_New == [keys |-> <<>>, val |-> EmptyFn]

LRU_GetNoTouch(l, key) == l

\* LRUCache.get: the cache it leaves (the value is l.val[key] on a hit)
LRU_Get(l, key) ==
    IF key \in Range(l.keys)
    THEN [l EXCEPT !.keys = Append(SeqRemove(l.keys, key), key)]
    ELSE l

LRU_PutNoEvict(l, max, key, value) ==
    [keys |-> Append(SeqRemove(l.keys, key), key), val |-> Put(l.val, key, value)]

\* LRUCache.put
LRU_Put(l, max, key, value) ==
    IF key \in Range(l.keys)
    THEN [keys |-> Append(SeqRemove(l.keys, key), key), val |-> Put(l.val, key, value)]
    ELSE IF Len(l.keys) >= max
    THEN [keys |-> Append(Tail(l.keys), key),
          val |-> Put(Restrict(l.val, DOMAIN l.val \ {Head(l.keys)}), key, value)]
    ELSE [keys |-> Append(l.keys, key), val |-> Put(l.val, key, value)]

\* LRUCache.remove
LRU_Remove(l, key) ==
    [keys |-> SeqRemove(l.keys, key), val |-> Restrict(l.val, DOMAIN l.val \ {key})]

\* BoundedDict.__setitem__ never returns: the key is present, its removal
\* leaves _access_order empty and len(_data) >= max_size still holds
BD_SetHangs(d, max, k) ==
    /\ BD_Has(d, k)
    /\ SeqRemove(d.order, k) = <<>>
    /\ Len(d.keys) >= max

----------------------------------------------------------------------------
(* One bounded collection driven on its own                                *)

CollKeys == {"k1", "k2", "k3"}

CollValues == {1, 2}

CollKinds == {"lru", "dict", "set"}

NoCollLast == [op |-> "init", key |-> None, time |-> 0, hit |-> FALSE,
               seen |-> {}, before |-> {}, was_lru |-> FALSE, after_touch |-> FALSE,
               touched |-> None, oldest |-> None]

\* the keys the collection holds
CollKeysOf(c) ==
    IF c.kind = "lru" THEN Range(c.lru.keys)
    ELSE IF c.kind = "dict" THEN Range(c.bd.keys)
    ELSE c.bs.data

\* the collection's own record of the recency of its keys
CollOrderOf(c) ==
    IF c.kind = "lru" THEN c.lru.keys
    ELSE IF c.kind = "dict" THEN c.bd.order
    ELSE c.bs.order

\* the last n elements of a sequence
MostRecent(seq, n) ==
    IF Len(seq) <= n THEN seq ELSE SubSeq(seq, Len(seq) - n + 1, Len(seq))

\* the record of an operation on key k
CollOp(op, k) ==
    [NoCollLast EXCEPT !.op = op, !.key = k, !.time = now,
                       !.hit = (k \in CollKeysOf(coll)),
                       !.before = CollKeysOf(coll),
                       !.oldest = IF CollOrderOf(coll) = <<>> THEN None
                                  ELSE Head(CollOrderOf(coll))]

\* a use of key k: it becomes the most recent, and only the capacity most
\* recent keys are retained
Used(k) == ideal' = MostRecent(Append(SeqRemove(ideal, k), k), coll.cap)

\* LRUCache.get(key)
lru_get(key) ==
    /\ coll.kind = "lru"
    /\ coll' = [coll EXCEPT !.lru = LRU_Get(@, key)]
    /\ coll_last' = [CollOp("get", key) EXCEPT
                        !.was_lru = (Len(coll.lru.keys) > 1 /\ Head(coll.lru.keys) = key)]
    /\ IF key \in Range(coll.lru.keys) THEN Used(key) ELSE UNCHANGED ideal
    /\ UNCHANGED born

\* LRUCache.put(key, value)
lru_put(key, value) ==
    /\ coll.kind = "lru"
    /\ coll' = [coll EXCEPT !.lru = LRU_Put(@, coll.cap, key, value)]
    /\ coll_last' = [CollOp("put", key) EXCEPT
                        !.after_touch = (coll_last.op = "get" /\ coll_last.hit
                                            /\ coll_last.was_lru),
                        !.touched = coll_last.key]
    /\ Used(key)
    /\ born' = [born EXCEPT ![key] = now]

\* LRUCache.remove(key)
lru_remove(key) ==
    /\ coll.kind = "lru"
    /\ coll' = [coll EXCEPT !.lru = LRU_Remove(@, key)]
    /\ coll_last' = CollOp("remove", key)
    /\ ideal' = SeqRemove(ideal, key)
    /\ UNCHANGED born

\* BoundedSet.add(item)
bs_add(item) ==
    /\ coll.kind = "set"
    /\ coll' = [coll EXCEPT !.bs = BS_Add(@, coll.cap, item)]
    /\ coll_last' = [CollOp("add", item) EXCEPT
                        !.was_lru = (Len(coll.bs.order) > 1 /\ Head(coll.bs.order) = item),
                        !.after_touch = (coll_last.op = "add" /\ coll_last.hit
                                            /\ coll_last.was_lru),
                        !.touched = coll_last.key]
    /\ Used(item)
    /\ born' = [born EXCEPT ![item] = now]

\* BoundedSet.discard(item)
bs_discard(item) ==
    /\ coll.kind = "set"
    /\ coll' = [coll EXCEPT !.bs = BS_Discard(@, item)]
    /\ coll_last' = CollOp("discard", item)
    /\ ideal' = SeqRemove(ideal, item)
    /\ UNCHANGED born

\* BoundedDict.__setitem__(key, value); when the eviction loop cannot end the
\* call is left inside it for good
bd_setitem(key, value) ==
    /\ coll.kind = "dict"
    /\ IF BD_SetHangs(coll.bd, coll.cap, key)
       THEN coll' = [coll EXCEPT !.hung = TRUE,
                                 !.bd.order = SeqRemove(@, key)]
       ELSE coll' = [coll EXCEPT !.bd = BD_Set(@, coll.cap, coll.ttl, now, key, value)]
    /\ coll_last' = CollOp("setitem", key)
    /\ Used(key)
    /\ born' = [born EXCEPT ![key] = now]

\* BoundedDict.get(key): __getitem__ behind a KeyError handler
bd_get(key) ==
    /\ coll.kind = "dict"
    /\ LET d1 == BD_Cleanup(coll.bd, coll.ttl, now)
       IN /\ coll' = [coll EXCEPT !.bd = IF BD_Has(d1, key)
                                          THEN BD_Touch(coll.bd, coll.ttl, now, key)
                                          ELSE d1]
          /\ coll_last' = [CollOp("get", key) EXCEPT
                              !.hit = BD_Has(d1, key),
                              !.seen = IF BD_Has(d1, key) THEN {key} ELSE {}]
          /\ ideal' = LET left == SelectSeq(ideal, LAMBDA k : k \in Range(d1.keys))
                      IN IF BD_Has(d1, key)
                         THEN Append(SeqRemove(left, key), key)
                         ELSE left
    /\ UNCHANGED born

\* BoundedDict.__contains__(key)
bd_contains(key) ==
    /\ coll.kind = "dict"
    /\ LET d1 == BD_Cleanup(coll.bd, coll.ttl, now)
       IN /\ coll' = [coll EXCEPT !.bd = d1]
          /\ coll_last' = [CollOp("contains", key) EXCEPT
                              !.hit = BD_Has(d1, key),
                              !.seen = IF BD_Has(d1, key) THEN {key} ELSE {}]
          /\ ideal' = SelectSeq(ideal, LAMBDA k : k \in Range(d1.keys))
    /\ UNCHANGED born

\* BoundedDict.__len__ and keys(): the cleanup, then all keys
bd_keys ==
    /\ coll.kind = "dict"
    /\ LET d1 == BD_Cleanup(coll.bd, coll.ttl, now)
       IN /\ coll' = [coll EXCEPT !.bd = d1]
          /\ coll_last' = [CollOp("keys", None) EXCEPT !.seen = Range(d1.keys)]
          /\ ideal' = SelectSeq(ideal, LAMBDA k : k \in Range(d1.keys))
    /\ UNCHANGED born

\* BoundedDict.pop(key) / __delitem__
bd_delitem(key) ==
    /\ coll.kind = "dict"
    /\ coll' = [coll EXCEPT !.bd = BD_Del(@, key)]
    /\ coll_last' = CollOp("delitem", key)
    /\ ideal' = SeqRemove(ideal, key)
    /\ UNCHANGED born

\* time.time() between two operations of a dictionary with a ttl
CollSteps == {1, 2}

CollTick(d) ==
    /\ coll.kind = "dict"
    /\ coll.ttl # NO_TTL
    /\ now' = now + d

NoColl == [kind |-> None, cap |-> 0, ttl |-> NO_TTL, hung |-> FALSE,
           lru |-> LRU_New, bd |-> BD_New, bs |-> BS_New]

\* the constructors: LRUCache(max_size), BoundedSet(max_size) and
\* BoundedDict(max_size, ttl_seconds), with a capacity of at least one
coll_new(kind, max_size, ttl_seconds) ==
    /\ coll.kind = None
    /\ kind = "dict" \/ ttl_seconds = NO_TTL
    /\ coll' = [NoColl EXCEPT !.kind = kind, !.cap = max_size, !.ttl = ttl_seconds]
    /\ UNCHANGED <<coll_last, ideal, born>>

CollInit ==
    /\ coll = NoColl
    /\ coll_last = NoCollLast
    /\ ideal = <<>>
    /\ born = [k \in CollKeys |-> 0]

----------------------------------------------------------------------------
(* EnhancedConnectionManager (main.py:44-324)                              *)

NoTask == 0

NewManager ==
    [active_connections |-> BD_New, project_subscribers |-> BD_New,
     user_presence |-> BD_New, heartbeat_intervals |-> BD_New]

\* repeat: the call repeats the call before it (same method, same connection
\* id); prev_task: the task that call cancelled
NoRegLast == [op |-> "init", client |-> None, project |-> None, task |-> NoTask,
              error |-> FALSE, repeat |-> FALSE, prev_task |-> NoTask]

\* the presence dict of a connection: project_id (None when the key is
\* missing) and last_seen; connected_at and status are never read
Presence(project_id, last_seen) == [project_id |-> project_id, last_seen |-> last_seen]

\* connect(), up to await websocket.accept() (main.py:93-97)
connect_check(c) ==
    LET active == BD_Cleanup(manager.active_connections, ACTIVE_TTL, now)
    IN /\ c \notin accepting
       /\ manager' = [manager EXCEPT !.active_connections = active]
       /\ IF Len(active.keys) >= MAX_CONNECTIONS
          THEN /\ transport' = [transport EXCEPT ![c] = [state |-> "closed", code |-> CAPACITY_CLOSE]]
               /\ accepting' = accepting
               /\ reg_last' = [NoRegLast EXCEPT !.op = "connect_rejected", !.client = c]
          ELSE /\ transport' = [transport EXCEPT ![c] = [state |-> "accepting", code |-> 0]]
               /\ accepting' = accepting \cup {c}
               /\ reg_last' = [NoRegLast EXCEPT !.op = "connect_check", !.client = c]
       /\ UNCHANGED tasks

\* connect(), after await websocket.accept() (main.py:98-110)
connect_accepted(c) ==
    /\ c \in accepting
    /\ Len(tasks) < MaxTasks
    /\ LET task == Len(tasks) + 1
       IN /\ manager' =
                [manager EXCEPT
                   !.active_connections =
                        BD_Set(@, MAX_CONNECTIONS, ACTIVE_TTL, now, c, c),
                   !.user_presence =
                        BD_Set(@, MAX_CONNECTIONS, PRESENCE_TTL, now, c, Presence(None, now)),
                   !.heartbeat_intervals =
                        BD_Set(@, MAX_CONNECTIONS, NO_TTL, now, c, task)]
          /\ tasks' = Append(tasks, [client |-> c, status |-> "running"])
          /\ reg_last' = [NoRegLast EXCEPT !.op = "connect", !.client = c, !.task = task]
    /\ transport' = [transport EXCEPT ![c] = [state |-> "open", code |-> 0]]
    /\ accepting' = accepting \ {c}

RECURSIVE DiscardFromFirst(_, _, _)
DiscardFromFirst(subs, ps, c) ==
    IF ps = <<>> THEN subs
    ELSE LET p == Head(ps)
             s1 == BD_Cleanup(subs, SUBSCRIBERS_TTL, now)
         IN IF BD_Has(s1, p)
            THEN LET s2 == BD_Touch(s1, SUBSCRIBERS_TTL, now, p)
                 IN IF c \in s2.val[p].data
                    THEN [s2 EXCEPT !.val[p] = BS_Discard(@, c)]
                    ELSE DiscardFromFirst(s2, Tail(ps), c)
            ELSE DiscardFromFirst(s1, Tail(ps), c)

\* for project_id in list(self.project_subscribers.keys()): ... discard(client_id)
\* (main.py:127-129); ps is the key list taken before the loop
RECURSIVE DiscardFromAll(_, _, _)
DiscardFromAll(subs, ps, c) ==
    IF ps = <<>> THEN subs
    ELSE LET p == Head(ps)
             s1 == BD_Cleanup(subs, SUBSCRIBERS_TTL, now)
         IN IF BD_Has(s1, p)
            THEN LET s2 == BD_Touch(s1, SUBSCRIBERS_TTL, now, p)
                 IN DiscardFromAll([s2 EXCEPT !.val[p] = BS_Discard(@, c)], Tail(ps), c)
            ELSE DiscardFromAll(s1, Tail(ps), c)

DisconnectedSkipUnknown(m, c) ==
    IF BD_Has(m.active_connections, c)
    THEN [active_connections |-> BD_Del(m.active_connections, c),
          heartbeat_intervals |-> BD_Del(m.heartbeat_intervals, c),
          project_subscribers |->
              DiscardFromAll(m.project_subscribers, m.project_subscribers.keys, c),
          user_presence |-> BD_Del(m.user_presence, c)]
    ELSE m

\* the manager after disconnect(c) (main.py:118-133)
Disconnected(m, c) ==
    LET active == BD_Cleanup(m.active_connections, ACTIVE_TTL, now)
        subs == BD_Cleanup(m.project_subscribers, SUBSCRIBERS_TTL, now)
        presence == BD_Cleanup(m.user_presence, PRESENCE_TTL, now)
    IN [active_connections |-> BD_Del(active, c),
        heartbeat_intervals |-> BD_Del(m.heartbeat_intervals, c),
        project_subscribers |-> DiscardFromAll(subs, subs.keys, c),
        user_presence |-> BD_Del(presence, c)]

\* the task disconnect(c) cancels: self.heartbeat_intervals[client_id]
TaskOf(m, c) ==
    IF BD_Has(m.heartbeat_intervals, c) THEN m.heartbeat_intervals.val[c] ELSE NoTask

\* Task.cancel(): a task that has finished stays finished
Cancel(tk, task) ==
    IF task # NoTask /\ tk[task].status = "running"
    THEN [tk EXCEPT ![task].status = "cancelled"]
    ELSE tk

\* whether disconnect(c) raises: every access is guarded by a membership test
disconnect_error(c) == FALSE

disconnect(c) ==
    /\ manager' = Disconnected(manager, c)
    /\ tasks' = Cancel(tasks, TaskOf(manager, c))
    /\ reg_last' = [NoRegLast EXCEPT !.op = "disconnect", !.client = c,
                                     !.task = TaskOf(manager, c),
                                     !.error = disconnect_error(c),
                                     !.repeat = (reg_last.op = "disconnect"
                                                    /\ reg_last.client = c),
                                     !.prev_task = reg_last.task]
    /\ UNCHANGED <<transport, accepting>>

\* the manager after subscribe_to_project(c, p) (main.py:135-157)
SubscribedTo(m, c, p) ==
    LET s1 == BD_Cleanup(m.project_subscribers, SUBSCRIBERS_TTL, now)
        s2 == IF BD_Has(s1, p) THEN s1
              ELSE BD_Set(s1, MAX_PROJECTS, SUBSCRIBERS_TTL, now, p, BS_New)
        s3 == BD_Touch(s2, SUBSCRIBERS_TTL, now, p)
        s4 == [s3 EXCEPT !.val[p] = BS_Add(@, MAX_SUBSCRIBERS, c)]
        u1 == BD_Cleanup(m.user_presence, PRESENCE_TTL, now)
        u2 == IF BD_Has(u1, c) THEN u1
              ELSE BD_Set(u1, MAX_CONNECTIONS, PRESENCE_TTL, now, c, Presence(None, 0))
        u3 == BD_Touch(u2, PRESENCE_TTL, now, c)
        u4 == [u3 EXCEPT !.val[c] = Presence(p, now)]
    IN [m EXCEPT !.project_subscribers = s4, !.user_presence = u4]

\* subscribe_to_project, called on its own
subscribe_to_project(c, p) ==
    /\ manager' = SubscribedTo(manager, c, p)
    /\ reg_last' = [NoRegLast EXCEPT !.op = "subscribe", !.client = c, !.project = p]
    /\ UNCHANGED <<tasks, transport, accepting>>

\* unsubscribe_from_project (main.py:294-304)
unsubscribe_from_project(c, p) ==
    LET s1 == BD_Cleanup(manager.project_subscribers, SUBSCRIBERS_TTL, now)
        u1 == BD_Cleanup(manager.user_presence, PRESENCE_TTL, now)
    IN /\ IF BD_Has(s1, p)
          THEN LET s2 == BD_Touch(s1, SUBSCRIBERS_TTL, now, p)
                   s3 == [s2 EXCEPT !.val[p] = BS_Discard(@, c)]
               IN IF BD_Has(u1, c)
                  THEN LET u2 == BD_Touch(u1, PRESENCE_TTL, now, c)
                       IN manager' = [manager EXCEPT
                                        !.project_subscribers = s3,
                                        !.user_presence =
                                            [u2 EXCEPT !.val[c].project_id = None]]
                  ELSE manager' = [manager EXCEPT !.project_subscribers = s3,
                                                  !.user_presence = u1]
          ELSE manager' = [manager EXCEPT !.project_subscribers = s1]
       /\ reg_last' = [NoRegLast EXCEPT !.op = "unsubscribe", !.client = c, !.project = p]
       /\ UNCHANGED <<tasks, transport, accepting>>

\* heartbeat_loop leaving its while loop (main.py:168): the task wakes and
\* finds its connection id no longer in active_connections
heartbeat_exit(task) ==
    LET active == BD_Cleanup(manager.active_connections, ACTIVE_TTL, now)
    IN /\ tasks[task].status = "running"
       /\ ~BD_Has(active, tasks[task].client)
       /\ manager' = [manager EXCEPT !.active_connections = active]
       /\ tasks' = [tasks EXCEPT ![task].status = "finished"]
       /\ reg_last' = [NoRegLast EXCEPT !.op = "heartbeat_exit",
                                        !.client = tasks[task].client, !.task = task]
       /\ UNCHANGED <<transport, accepting>>

\* the clock
Tick ==
    /\ now < MaxTicks * TimeStep
    /\ now' = now + TimeStep

RegInit ==
    /\ manager = NewManager
    /\ tasks = <<>>
    /\ transport = [c \in Clients |-> [state |-> "none", code |-> 0]]
    /\ accepting = {}
    /\ reg_last = NoRegLast
    /\ nsteps = 0
    /\ now = 0

----------------------------------------------------------------------------
(* rate_limiter.py: ConnectionRateLimiter                                  *)
(*                                                                         *)
(* The three defaultdicts are functions whose domain is the set of keys    *)
(* present; reading a missing key of a defaultdict creates it.             *)

NewLimiter ==
    [connections_by_ip |-> EmptyFn, connection_attempts |-> EmptyFn, blocked_ips |-> EmptyFn]

GetOr(f, k, default) == IF k \in DOMAIN f THEN f[k] ELSE default

\* while attempts and attempts[0] < minute_ago: attempts.popleft()
RECURSIVE PruneBefore(_, _)
PruneBefore(attempts, limit) ==
    IF attempts # <<>> /\ Head(attempts) < limit
    THEN PruneBefore(Tail(attempts), limit)
    ELSE attempts

\* ConnectionRateLimiter.can_connect: [ok, limiter]
can_connect(lim, ip_address, client_id, current_time) ==
    IF ip_address \in DOMAIN lim.blocked_ips /\ current_time < lim.blocked_ips[ip_address]
    THEN [ok |-> FALSE, limiter |-> lim]
    ELSE
      LET blocked == Restrict(lim.blocked_ips, DOMAIN lim.blocked_ips \ {ip_address})
          attempts == PruneBefore(GetOr(lim.connection_attempts, ip_address, <<>>),
                                  current_time - ATTEMPT_WINDOW)
          lim1 == [lim EXCEPT !.blocked_ips = blocked,
                              !.connection_attempts = Put(@, ip_address, attempts)]
      IN IF Len(attempts) >= MAX_CONNECTIONS_PER_IP * 2
         THEN [ok |-> FALSE,
               limiter |-> [lim1 EXCEPT !.blocked_ips =
                                Put(@, ip_address, current_time + BLOCK_SECONDS)]]
         ELSE
           LET conns == GetOr(lim1.connections_by_ip, ip_address, {})
               lim2 == [lim1 EXCEPT !.connections_by_ip = Put(@, ip_address, conns)]
           IN IF Cardinality(conns) >= MAX_CONNECTIONS_PER_IP
              THEN [ok |-> FALSE, limiter |-> lim2]
              ELSE [ok |-> TRUE,
                    limiter |->
                       [lim2 EXCEPT
                          !.connection_attempts =
                               Put(@, ip_address, Append(attempts, current_time)),
                          !.connections_by_ip =
                               Put(@, ip_address, conns \cup {client_id})]]

on_disconnect_keep(lim, ip_address, client_id) == lim

\* ConnectionRateLimiter.disconnect
on_disconnect(lim, ip_address, client_id) ==
    IF ip_address \in DOMAIN lim.connections_by_ip
    THEN LET conns == lim.connections_by_ip[ip_address] \ {client_id}
         IN IF conns = {}
            THEN [lim EXCEPT !.connections_by_ip =
                                Restrict(@, DOMAIN lim.connections_by_ip \ {ip_address})]
            ELSE [lim EXCEPT !.connections_by_ip[ip_address] = conns]
    ELSE lim

\* the ids that hold a slot of ip_address, and its attempts of the last minute
Holders(lim, ip_address) == GetOr(lim.connections_by_ip, ip_address, {})

RecentAttempts(lim, ip_address, current_time) ==
    PruneBefore(GetOr(lim.connection_attempts, ip_address, <<>>),
                current_time - ATTEMPT_WINDOW)

NoConnLast == [op |-> "init", ip |-> None, client |-> None, time |-> 0, ok |-> FALSE,
               holders |-> 0, attempts |-> 0, all_attempts |-> 0, blocked |-> FALSE,
               was_holder |-> FALSE, after_release |-> FALSE]

\* RateLimitManager.check_connection_rate(ip_address, client_id), called on
\* its own; after_release: the call before it released a slot of the same
\* address, which was at its max
check_connection_rate(ip_address, client_id) ==
    LET r == can_connect(limiter, ip_address, client_id, now)
    IN /\ limiter' = r.limiter
       /\ conn_last' =
             [NoConnLast EXCEPT
                !.op = "check", !.ip = ip_address, !.client = client_id, !.ok = r.ok,
                !.time = now,
                !.all_attempts = Len(PruneBefore(attempt_log[ip_address],
                                                 now - ATTEMPT_WINDOW)),
                !.holders = Cardinality(Holders(limiter, ip_address)),
                !.attempts = Len(RecentAttempts(limiter, ip_address, now)),
                !.blocked = (ip_address \in DOMAIN limiter.blocked_ips
                                /\ now < limiter.blocked_ips[ip_address]),
                !.was_holder = (client_id \in Holders(limiter, ip_address)),
                !.after_release = (conn_last.op = "disconnect"
                                      /\ conn_last.ip = ip_address
                                      /\ conn_last.was_holder
                                      /\ conn_last.holders >= MAX_CONNECTIONS_PER_IP)]
       /\ attempt_log' = [attempt_log EXCEPT ![ip_address] = Append(@, now)]

\* RateLimitManager.on_disconnect(ip_address, client_id), called on its own
connection_released(ip_address, client_id) ==
    /\ limiter' = on_disconnect(limiter, ip_address, client_id)
    /\ conn_last' =
          [NoConnLast EXCEPT
             !.op = "disconnect", !.ip = ip_address, !.client = client_id, !.time = now,
             !.holders = Cardinality(Holders(limiter, ip_address)),
             !.was_holder = (client_id \in Holders(limiter, ip_address))]
    /\ UNCHANGED attempt_log

ConnInit ==
    /\ conn_last = NoConnLast
    /\ attempt_log = [ip \in Addresses |-> <<>>]

\* the connection ids that hold a concurrent-connection slot
SlotHolders(lim) == UNION {lim.connections_by_ip[ip] : ip \in DOMAIN lim.connections_by_ip}

----------------------------------------------------------------------------
(* rate_limiter.py: SlidingWindowRateLimiter                               *)

NewMsgLimiter ==
    [message_timestamps |-> EmptyFn, violation_counts |-> EmptyFn, cooldown_until |-> EmptyFn]

InCooldownShort(lim, client_id, current_time) ==
    /\ client_id \in DOMAIN lim.cooldown_until
    /\ current_time + FIRST_COOLDOWN < lim.cooldown_until[client_id]

\* if client_id in self.cooldown_until: if current_time < self.cooldown_until[client_id]
InCooldown(lim, client_id, current_time) ==
    /\ client_id \in DOMAIN lim.cooldown_until
    /\ current_time < lim.cooldown_until[client_id]

\* the progressive penalties (rate_limiter.py:54-65)
Penalty(violations) ==
    IF violations >= 3 THEN COOLDOWN_PERIOD
    ELSE IF violations >= 2 THEN SECOND_COOLDOWN
    ELSE FIRST_COOLDOWN

WindowFullLoose(timestamps) == Len(timestamps) > MAX_MESSAGES_PER_MINUTE

\* if len(timestamps) >= self.config.max_messages_per_minute
WindowFull(timestamps) == Len(timestamps) >= MAX_MESSAGES_PER_MINUTE

CooldownExpiredKeepCount(lim, client_id) ==
    IF client_id \in DOMAIN lim.cooldown_until
    THEN [lim EXCEPT !.cooldown_until = Restrict(@, DOMAIN lim.cooldown_until \ {client_id})]
    ELSE lim

\* the limiter after the cooldown test has let the check through
\* (rate_limiter.py:32-39): an expired cooldown is deleted and the violation
\* count set to zero
CooldownExpired(lim, client_id) ==
    IF client_id \in DOMAIN lim.cooldown_until
    THEN [lim EXCEPT !.cooldown_until = Restrict(@, DOMAIN lim.cooldown_until \ {client_id}),
                     !.violation_counts = Put(@, client_id, 0)]
    ELSE lim

\* SlidingWindowRateLimiter.is_allowed: [ok, kind, remaining, limiter];
\* remaining is the number of seconds in the message, kind tells which return
\* statement was taken
is_allowed(lim, client_id, current_time) ==
    IF InCooldown(lim, client_id, current_time)
    THEN [ok |-> FALSE, kind |-> "cooldown",
          remaining |-> lim.cooldown_until[client_id] - current_time,
          limiter |-> lim]
    ELSE
      LET lim0 == CooldownExpired(lim, client_id)
          timestamps == PruneBefore(GetOr(lim0.message_timestamps, client_id, <<>>),
                                    current_time - WINDOW)
          lim1 == [lim0 EXCEPT !.message_timestamps = Put(@, client_id, timestamps)]
      IN IF WindowFull(timestamps)
         THEN LET violations == GetOr(lim1.violation_counts, client_id, 0) + 1
              IN [ok |-> FALSE, kind |-> "violation",
                  remaining |-> Penalty(violations),
                  limiter |->
                     [lim1 EXCEPT
                        !.violation_counts = Put(@, client_id, violations),
                        !.cooldown_until =
                             Put(@, client_id, current_time + Penalty(violations))]]
         ELSE [ok |-> TRUE, kind |-> "allowed", remaining |-> 0,
               limiter |-> [lim1 EXCEPT !.message_timestamps =
                                Put(@, client_id, Append(timestamps, current_time))]]

\* SlidingWindowRateLimiter.cleanup_old_data
cleanup_old_data(lim, current_time) ==
    LET pruned == [c \in DOMAIN lim.message_timestamps |->
                      PruneBefore(lim.message_timestamps[c], current_time - SWEEP_HORIZON)]
        kept == {c \in DOMAIN pruned : pruned[c] # <<>>}
        cooling == {c \in DOMAIN lim.cooldown_until :
                       ~(current_time > lim.cooldown_until[c])}
    IN [lim EXCEPT !.message_timestamps = Restrict(pruned, kept),
                   !.cooldown_until = Restrict(@, cooling)]

NoRateLast == [op |-> "init", client |-> None, time |-> 0, ok |-> FALSE, kind |-> None,
               remaining |-> 0, cooling |-> FALSE, expired |-> FALSE,
               first_after |-> FALSE, in_window |-> 0, violations |-> 0]

\* the times in log that lie in the 60 seconds up to t
InWindow(log, t) == {i \in 1..Len(log) : t - WINDOW <= log[i] /\ log[i] <= t}

\* the check made now is the first one for client_id that comes after the
\* cooldown of its latest violation has run out
FirstAfterCooldown(client_id) ==
    /\ violation_log[client_id] # <<>>
    /\ LET v == violation_log[client_id][Len(violation_log[client_id])]
       IN /\ v.time + v.seconds <= now
          /\ \A i \in 1..Len(allowed_log[client_id]) :
                allowed_log[client_id][i] < v.time + v.seconds

\* what one call of check_message_rate(client_id) does to the limiter, with the
\* record of the call: whether a cooldown was active, whether an expired one
\* was still recorded, how many allowed checks lay in the window, and the
\* violation count before the call
Checked(client_id) ==
    LET r == is_allowed(msg_limiter, client_id, now)
        recorded == client_id \in DOMAIN msg_limiter.cooldown_until
    IN /\ msg_limiter' = r.limiter
       /\ rate_last' = [op |-> "check", client |-> client_id, time |-> now,
                        ok |-> r.ok, kind |-> r.kind, remaining |-> r.remaining,
                        cooling |-> (recorded /\ now < msg_limiter.cooldown_until[client_id]),
                        expired |-> (recorded /\ now >= msg_limiter.cooldown_until[client_id]),
                        first_after |-> FirstAfterCooldown(client_id),
                        in_window |-> Cardinality(InWindow(allowed_log[client_id], now)),
                        violations |-> GetOr(msg_limiter.violation_counts, client_id, 0)]
       /\ allowed_log' = IF r.ok
                         THEN [allowed_log EXCEPT ![client_id] = Append(@, now)]
                         ELSE allowed_log
       /\ violation_log' = IF r.kind = "violation"
                           THEN [violation_log EXCEPT ![client_id] =
                                    Append(@, [time |-> now, seconds |-> r.remaining])]
                           ELSE violation_log

\* RateLimitManager.check_message_rate, called on its own
check_message_rate(client_id) ==
    /\ Checked(client_id)

\* RateLimitManager._periodic_cleanup, one round
periodic_cleanup ==
    /\ msg_limiter' = cleanup_old_data(msg_limiter, now)
    /\ rate_last' = [NoRateLast EXCEPT !.op = "cleanup", !.time = now]
    /\ UNCHANGED <<allowed_log, violation_log>>

\* the clock, in the steps the limiter's windows and cooldowns can tell apart
RateSteps == {5, 10, 60}

RateTick(d) ==
    /\ now + d <= MaxRateTime
    /\ now' = now + d

RateInit ==
    /\ msg_limiter = NewMsgLimiter
    /\ rate_last = NoRateLast
    /\ allowed_log = [c \in Clients |-> <<>>]
    /\ violation_log = [c \in Clients |-> <<>>]

----------------------------------------------------------------------------
(* A second message limiter that is given the same checks and no sweep     *)

NoShadowLast == [ok |-> FALSE, kind |-> None, remaining |-> 0]

\* check_message_rate(client_id) on both limiters
shadow_check(client_id) ==
    LET r == is_allowed(shadow_limiter, client_id, now)
    IN /\ Checked(client_id)
       /\ shadow_limiter' = r.limiter
       /\ shadow_last' = [ok |-> r.ok, kind |-> r.kind, remaining |-> r.remaining]

\* one round of _periodic_cleanup: the shadow limiter is left alone
shadow_cleanup ==
    /\ periodic_cleanup
    /\ UNCHANGED shadowVars

ShadowInit ==
    /\ shadow_limiter = NewMsgLimiter
    /\ shadow_last = NoShadowLast

----------------------------------------------------------------------------
(* EnhancedConnectionManager: send_personal_message, the liveness probe    *)
(* and broadcast_to_project (main.py:159-259)                              *)

\* sends: the connection ids a transport send of the message was attempted
\* to, in order; failed: those whose send raised; notice: a RATE_LIMITED
\* notice was sent instead; raised: the call ended with an exception
NoOut == [op |-> "init", client |-> None, project |-> None, exclude |-> None,
          sends |-> <<>>, failed |-> {}, oversize |-> FALSE, notice |-> FALSE,
          raised |-> FALSE, members |-> {}, live |-> {}, flip |-> FALSE]

\* the record of a new call: flip changes with every send or broadcast step
NewOut == [NoOut EXCEPT !.flip = ~out.flip]

\* a message and the transport it meets: too long, or of a fair size and the
\* transport accepts it or raises
SendKinds == {[oversize |-> TRUE, fails |-> FALSE],
              [oversize |-> FALSE, fails |-> FALSE],
              [oversize |-> FALSE, fails |-> TRUE]}

\* what send_personal_message(message, c) does to the manager and the message
\* limiter.  oversize: len(str(message)) > MAX_MESSAGE_SIZE; fails: the
\* transport raises on send.  After each of its awaits the method only
\* returns or calls disconnect(c).
Sent(m, lim, c, oversize, fails) ==
    LET active == BD_Cleanup(m.active_connections, ACTIVE_TTL, now)
        m0 == [m EXCEPT !.active_connections = active]
        nothing == [manager |-> m0, limiter |-> lim, task |-> NoTask, close |-> 0,
                    sent |-> FALSE, notice |-> FALSE, raised |-> FALSE, checked |-> FALSE]
    IN IF ~BD_Has(active, c) THEN nothing
       ELSE
         LET m1 == [m0 EXCEPT !.active_connections = BD_Touch(active, ACTIVE_TTL, now, c)]
             r == is_allowed(lim, c, now)
         IN IF oversize
            THEN \* close(code=1009); self.disconnect(client_id)
                 [nothing EXCEPT !.manager = Disconnected(m1, c),
                                 !.task = TaskOf(m1, c), !.close = SIZE_CLOSE]
            ELSE IF ~r.ok
            THEN \* the RATE_LIMITED notice is sent outside the try block
                 [nothing EXCEPT !.manager = m1, !.limiter = r.limiter,
                                 !.notice = TRUE, !.raised = fails, !.checked = TRUE]
            ELSE IF fails
            THEN \* except Exception: self.disconnect(client_id)
                 [nothing EXCEPT !.manager = Disconnected(m1, c), !.limiter = r.limiter,
                                 !.task = TaskOf(m1, c), !.sent = TRUE, !.checked = TRUE]
            ELSE [nothing EXCEPT !.manager = m1, !.limiter = r.limiter,
                                 !.sent = TRUE, !.checked = TRUE]

\* the message limiter's variables after a send that consulted it or did not
SendChecked(c, r) ==
    IF r.checked THEN Checked(c) ELSE UNCHANGED rateVars

send_personal_message(c, oversize, fails) ==
    LET r == Sent(manager, msg_limiter, c, oversize, fails)
    IN /\ manager' = r.manager
       /\ tasks' = Cancel(tasks, r.task)
       /\ SendChecked(c, r)
       /\ transport' = IF r.close # 0
                       THEN [transport EXCEPT ![c] = [state |-> "closed", code |-> r.close]]
                       ELSE transport
       /\ out' = [NewOut EXCEPT !.op = "send", !.client = c,
                               !.sends = IF r.sent THEN <<c>> ELSE <<>>,
                               !.failed = IF r.sent /\ fails THEN {c}
                                          ELSE IF r.notice /\ fails THEN {c} ELSE {},
                               !.oversize = (r.close # 0), !.notice = r.notice,
                               !.raised = r.raised]
       /\ UNCHANGED <<accepting, reg_last, bc>>

\* heartbeat_loop, one round of its while loop with the connection still in
\* active_connections (main.py:168-182): the probe is sent with
\* send_personal_message; an exception of it is caught and answered with
\* disconnect
heartbeat_send(task, fails) ==
    LET c == tasks[task].client
        r == Sent(manager, msg_limiter, c, FALSE, fails)
    IN /\ tasks[task].status = "running"
       /\ BD_Has(BD_Cleanup(manager.active_connections, ACTIVE_TTL, now), c)
       /\ manager' = IF r.raised THEN Disconnected(r.manager, c) ELSE r.manager
       /\ tasks' = IF r.raised
                   THEN [Cancel(tasks, TaskOf(r.manager, c)) EXCEPT ![task].status =
                            IF @ = "running" THEN "finished" ELSE @]
                   ELSE Cancel(tasks, r.task)
       /\ SendChecked(c, r)
       /\ out' = [NewOut EXCEPT !.op = "heartbeat", !.client = c,
                               !.sends = IF r.sent THEN <<c>> ELSE <<>>,
                               !.failed = IF (r.sent \/ r.notice) /\ fails THEN {c} ELSE {},
                               !.notice = r.notice]
       /\ UNCHANGED <<transport, accepting, reg_last, bc>>

NoBc == [running |-> FALSE, project |-> None, exclude |-> None, created |-> 0,
         snapshot |-> {}, visited |-> {}, pending |-> None, sends |-> <<>>,
         failed |-> <<>>, members |-> {}, live |-> {}]

\* for client_id in disconnected_clients: self.disconnect(client_id)
RECURSIVE DisconnectedAll(_, _)
DisconnectedAll(m, cs) ==
    IF cs = <<>> THEN m ELSE DisconnectedAll(Disconnected(m, Head(cs)), Tail(cs))

RECURSIVE CancelAll(_, _, _)
CancelAll(tk, m, cs) ==
    IF cs = <<>> THEN tk
    ELSE CancelAll(Cancel(tk, TaskOf(m, Head(cs))), Disconnected(m, Head(cs)), Tail(cs))

\* the set object the loop iterates: the BoundedSet taken from
\* project_subscribers when the loop began, as it is now
Iterated(b) ==
    LET subs == manager.project_subscribers
    IN IF b.project \in DOMAIN subs.val /\ subs.ts[b.project] = b.created
       THEN subs.val[b.project].data
       ELSE b.snapshot

\* the loop of broadcast_to_project from one await to the next
\* (main.py:245-259).  b is the coroutine's state, m the manager, cur the
\* iterated set as it is now.  A set iterator raises RuntimeError when the
\* set has changed size since the iterator was made; the order in which it
\* yields the members is not specified.
BroadcastAdvance(b, m, cur) ==
    LET active == BD_Cleanup(m.active_connections, ACTIVE_TTL, now)
        rest == cur \ b.visited
        skipped == {c \in rest : c = b.exclude \/ ~BD_Has(active, c)}
        report == [NewOut EXCEPT !.op = "broadcast", !.project = b.project,
                                !.exclude = b.exclude, !.sends = b.sends,
                                !.failed = Range(b.failed),
                                !.members = b.members, !.live = b.live]
    IN IF Cardinality(cur) # Cardinality(b.snapshot)
       THEN \* RuntimeError: Set changed size during iteration
            /\ bc' = NoBc
            /\ manager' = m
            /\ tasks' = tasks
            /\ out' = [report EXCEPT !.raised = TRUE]
       ELSE \/ \E c \in rest \ skipped : \E before \in SUBSET skipped :
                  \* await websocket.send_json(message) to c
                  /\ bc' = [b EXCEPT !.visited = @ \cup before \cup {c}, !.pending = c]
                  /\ manager' = [m EXCEPT !.active_connections =
                                     BD_Touch(active, ACTIVE_TTL, now, c)]
                  /\ tasks' = tasks
                  /\ out' = [report EXCEPT !.op = "broadcasting"]
            \/ /\ rest = skipped
               \* the loop has ended: the failed ones are disconnected
               /\ bc' = NoBc
               /\ manager' = DisconnectedAll([m EXCEPT !.active_connections = active],
                                             b.failed)
               /\ tasks' = CancelAll(tasks, m, b.failed)
               /\ out' = report

\* broadcast_to_project(message, p, exclude) up to its first await
broadcast_to_project(p, exclude) ==
    LET s1 == BD_Cleanup(manager.project_subscribers, SUBSCRIBERS_TTL, now)
    IN /\ ~bc.running
       /\ IF ~BD_Has(s1, p)
          THEN /\ manager' = [manager EXCEPT !.project_subscribers = s1]
               /\ out' = [NewOut EXCEPT !.op = "broadcast", !.project = p,
                                       !.exclude = exclude]
               /\ UNCHANGED <<tasks, bc>>
          ELSE LET s2 == BD_Touch(s1, SUBSCRIBERS_TTL, now, p)
                   m == [manager EXCEPT !.project_subscribers = s2]
                   members == s2.val[p].data
                   live == Range(BD_Cleanup(manager.active_connections,
                                            ACTIVE_TTL, now).keys)
                   b == [NoBc EXCEPT !.running = TRUE, !.project = p,
                                     !.exclude = exclude, !.created = s2.ts[p],
                                     !.snapshot = members, !.members = members,
                                     !.live = live]
               IN BroadcastAdvance(b, m, members)
       /\ UNCHANGED <<transport, accepting, reg_last, rateVars>>

\* the awaited send_json returns or raises, and the loop goes on
broadcast_resume(fails) ==
    /\ bc.running
    /\ LET b == [bc EXCEPT !.sends = Append(@, bc.pending),
                           !.failed = IF fails THEN Append(@, bc.pending) ELSE @,
                           !.pending = None]
       IN BroadcastAdvance(b, manager, Iterated(bc))
    /\ UNCHANGED <<transport, accepting, reg_last, rateVars>>

SendInit ==
    /\ out = NoOut
    /\ bc = NoBc

----------------------------------------------------------------------------
(* The presence sweep (main.py:45-56) and an inbound message of the        *)
(* endpoint loop (main.py:697-800)                                         *)

NoSweepLast == [op |-> "init", time |-> 0, swept |-> {}, silent |-> {}, present |-> {}]

\* the ids of d, in dict order, whose last_seen is older than twice the
\* heartbeat timeout
RECURSIVE StalePresence(_, _, _)
StalePresence(d, ks, t) ==
    IF ks = <<>> THEN <<>>
    ELSE IF t - d.val[Head(ks)].last_seen > HEARTBEAT_TIMEOUT * 2
    THEN <<Head(ks)>> \o StalePresence(d, Tail(ks), t)
    ELSE StalePresence(d, Tail(ks), t)

\* one round of _periodic_cleanup after its sleep
presence_sweep ==
    LET presence == BD_Cleanup(manager.user_presence, PRESENCE_TTL, now)
        disconnected == StalePresence(presence, presence.keys, now)
        m1 == [manager EXCEPT !.user_presence = presence]
        connected == Range(manager.active_connections.keys)
    IN /\ manager' = DisconnectedAll(m1, disconnected)
       /\ tasks' = CancelAll(tasks, m1, disconnected)
       /\ reg_last' = [NoRegLast EXCEPT !.op = "sweep"]
       /\ sweep_last' = [op |-> "sweep", time |-> now,
                         swept |-> connected \ Range(DisconnectedAll(m1, disconnected)
                                                        .active_connections.keys),
                         silent |-> {c \in connected :
                                       now - last_activity[c] > HEARTBEAT_TIMEOUT * 2},
                         present |-> connected]
       /\ UNCHANGED <<transport, accepting, last_activity>>

\* the endpoint loop receiving a message of no known channel from c: the
\* size test, the rate check, the token refresh (nothing is bound here) and
\* the echo; update_presence is never called
inbound_message(c) ==
    /\ BD_Has(manager.active_connections, c)
    /\ transport[c].state = "open"
    /\ Checked(c)
    /\ last_activity' = [last_activity EXCEPT ![c] = now]
    /\ UNCHANGED <<manager, tasks, transport, accepting, reg_last, sweep_last>>

\* time between two steps: one heartbeat timeout, or one and a half
SweepSteps == {HEARTBEAT_TIMEOUT, HEARTBEAT_TIMEOUT + HEARTBEAT_TIMEOUT \div 2}

SweepTick(d) == now' = now + d

SweepInit ==
    /\ last_activity = [c \in Clients |-> 0]
    /\ sweep_last = NoSweepLast

----------------------------------------------------------------------------
(* The endpoint loop handling one message of a channel (main.py:697-800)   *)

LoopChannels == {"subscribe", "sync-request", "text"}

NoLoopLast == [op |-> "init", client |-> None, project |-> None, time |-> 0,
               ok |-> FALSE, kind |-> None, replied |-> FALSE]

\* the reply of the loop to a message of channel ch that passed the rate
\* check, lim being the limiter after that check: the subscription and its
\* confirmation, the sync response, or the echo of a plain text, which is
\* sent with websocket.send_text and consults nothing
Replied(m, lim, c, ch, p) ==
    IF ch = "subscribe" THEN Sent(SubscribedTo(m, c, p), lim, c, FALSE, FALSE)
    ELSE IF ch = "sync-request" THEN Sent(m, lim, c, FALSE, FALSE)
    ELSE [manager |-> m, limiter |-> lim, task |-> NoTask, close |-> 0,
          sent |-> TRUE, notice |-> FALSE, raised |-> FALSE, checked |-> FALSE]

\* the loop of connection c receives a message of channel ch about project p
\* and answers it; every transport send succeeds, and no credential is bound,
\* so refresh_connection_token returns None
channel_message(c, ch, p) ==
    LET r1 == is_allowed(msg_limiter, c, now)
        r2 == Replied(manager, r1.limiter, c, ch, p)
        q2 == is_allowed(r1.limiter, c, now)
        oks == (IF r1.ok THEN <<now>> ELSE <<>>)
                 \o (IF r1.ok /\ r2.checked /\ q2.ok THEN <<now>> ELSE <<>>)
        bad == (IF r1.kind = "violation"
                THEN <<[time |-> now, seconds |-> r1.remaining]>> ELSE <<>>)
                 \o (IF r1.ok /\ r2.checked /\ q2.kind = "violation"
                     THEN <<[time |-> now, seconds |-> q2.remaining]>> ELSE <<>>)
    IN /\ transport[c].state = "open"
       /\ manager' = IF r1.ok THEN r2.manager ELSE manager
       /\ tasks' = IF r1.ok THEN Cancel(tasks, r2.task) ELSE tasks
       /\ msg_limiter' = IF r1.ok THEN r2.limiter ELSE r1.limiter
       /\ rate_last' = [NoRateLast EXCEPT !.op = "check", !.client = c, !.time = now,
                                          !.ok = r1.ok, !.kind = r1.kind,
                                          !.remaining = r1.remaining]
       /\ allowed_log' = [allowed_log EXCEPT ![c] = @ \o oks]
       /\ violation_log' = [violation_log EXCEPT ![c] = @ \o bad]
       /\ inbound_log' = [inbound_log EXCEPT ![c] = Append(@, now)]
       /\ loop_last' = [op |-> ch, client |-> c, project |-> p, time |-> now,
                        ok |-> r1.ok, kind |-> r1.kind,
                        replied |-> (r1.ok /\ r2.sent)]
       /\ last_activity' = [last_activity EXCEPT ![c] = now]
       /\ UNCHANGED <<transport, accepting, reg_last, sweep_last>>

LoopInit ==
    /\ inbound_log = [c \in Clients |-> <<>>]
    /\ loop_last = NoLoopLast

----------------------------------------------------------------------------
(* Lock-set calls on one component with their broadcasts in progress       *)
(* (main.py:462-493 and 228-259).  The clock stands still and one project  *)
(* is used, so the reads of the manager's maps leave them as they are.     *)

OrderProject == "p1"
OrderComponent == "c1"

\* the bodies of the calls: overridable soft locks of the two users
OrderLocks == {l \in WellFormedLock(OrderComponent) : l.level = "soft" /\ l.canOverride}

\* two iterations of one set yield its members in the same order, here the
\* order of this list
IterOrder == <<"a", "b", "c">>

Rank(c) == CHOOSE i \in 1..Len(IterOrder) : IterOrder[i] = c

\* self.project_subscribers[project_id], the set the loop iterates
MembersNow(m) ==
    IF BD_Has(m.project_subscribers, OrderProject)
    THEN m.project_subscribers.val[OrderProject].data
    ELSE {}

\* the loop of broadcast_to_project from one await to the next: the iterator
\* raises RuntimeError when the set has changed size since the loop began;
\* when the set has changed and has its old size again, the iterator may
\* yield the members added since (late) or not; members that are not in
\* active_connections are passed over
BroadcastNext(call, m, late) ==
    LET cur == MembersNow(m)
        rest == {c \in cur \ call.visited :
                    /\ BD_Has(m.active_connections, c)
                    /\ (late \/ c \in call.snapshot)}
    IN IF Cardinality(cur) # call.size
       THEN [call EXCEPT !.state = "raised", !.pending = None]
       ELSE IF rest = {}
       THEN [call EXCEPT !.state = "done", !.pending = None, !.visited = cur]
       ELSE LET c == CHOOSE x \in rest : \A y \in rest : Rank(x) <= Rank(y)
            IN [call EXCEPT !.state = "sending", !.pending = c,
                            !.visited = @ \cup {x \in cur : Rank(x) <= Rank(c)}]

\* the manager and the tasks when the loop has ended: the connections whose
\* send raised are disconnected; nothing is done when the iterator raised
BroadcastEnded(call) ==
    /\ manager' = IF call.state = "done" THEN DisconnectedAll(manager, call.failed)
                  ELSE manager
    /\ tasks' = IF call.state = "done" THEN CancelAll(tasks, manager, call.failed)
                ELSE tasks

\* update_component_lock up to the first await of its broadcast
lockset_begin(lock) ==
    LET cur == MembersNow(manager)
        call0 == [lock |-> lock, state |-> "sending", size |-> Cardinality(cur),
                  visited |-> {}, pending |-> None, failed |-> <<>>, snapshot |-> cur,
                  members |-> {c \in cur : BD_Has(manager.active_connections, c)}]
        call == BroadcastNext(call0, manager, TRUE)
    IN /\ Len(calls) < MaxCalls
       /\ update_component_lock(OrderProject, OrderComponent, lock)
       /\ calls' = Append(calls, call)
       /\ BroadcastEnded(call)
       /\ UNCHANGED <<received, transport, accepting, reg_last>>

\* the awaited send_json of call k returns, or raises on a closed transport,
\* and the loop goes on; the sends to one socket end in the order they began
lockset_resume(k, late) ==
    LET c == calls[k].pending
        sent == transport[c].state = "open"
        call1 == [calls[k] EXCEPT !.pending = None,
                                  !.failed = IF sent THEN @ ELSE Append(@, c)]
        call == BroadcastNext(call1, manager, late)
    IN /\ calls[k].pending # None
       /\ \A j \in 1..(k - 1) : calls[j].pending # calls[k].pending
       /\ calls' = [calls EXCEPT ![k] = call]
       /\ received' = IF sent THEN [received EXCEPT ![c] = Append(@, k)] ELSE received
       /\ BroadcastEnded(call)
       /\ UNCHANGED <<lockVars, transport, accepting, reg_last>>

\* the client of c goes away: the endpoint's handler of WebSocketDisconnect
\* calls manager.disconnect (main.py:802-805)
client_gone(c) ==
    /\ transport[c].state = "open"
    /\ manager' = Disconnected(manager, c)
    /\ tasks' = Cancel(tasks, TaskOf(manager, c))
    /\ transport' = [transport EXCEPT ![c] = [state |-> "closed", code |-> 0]]
    /\ reg_last' = [NoRegLast EXCEPT !.op = "disconnect", !.client = c,
                                     !.task = TaskOf(manager, c)]
    /\ UNCHANGED accepting

OrderInit ==
    /\ calls = <<>>
    /\ received = [c \in Clients |-> <<>>]

----------------------------------------------------------------------------
(* jwt_auth.py: JWTAuthenticator.verify_token and WebSocketAuthManager     *)
(*                                                                         *)
(* A token is its payload (user_id, username, email, permissions, iat,     *)
(* exp) with sig, whether jwt.decode accepts its signature and structure,  *)
(* and complete, whether the payload carries every claim verify_token      *)
(* reads.                                                                  *)

\* the user_data a token is created from
UserData ==
    {[user_id |-> "u1", username |-> "n1", email |-> "e1", permissions |-> <<"read">>],
     [user_id |-> "u2", username |-> "n2", email |-> "e2",
      permissions |-> <<"read", "write">>]}

DefaultUser == [user_id |-> "u1", username |-> "n1", email |-> "e1"]

\* JWTAuthenticator.create_token at time t
create_token(user_data, t) ==
    [sig |-> "good", complete |-> TRUE,
     user_id |-> user_data.user_id, username |-> user_data.username,
     email |-> user_data.email,
     permissions |-> IF "permissions" \in DOMAIN user_data
                     THEN user_data.permissions ELSE <<"read", "write">>,
     iat |-> t, exp |-> t + TOKEN_EXPIRY]

\* the tokens a client may present at time t: a good one, an expired one, one
\* that jwt.decode rejects, and a well-signed one that lacks a claim
TokensAt(t) ==
    {create_token(DefaultUser, t),
     create_token(DefaultUser, t - 2 * TOKEN_EXPIRY),
     [create_token(DefaultUser, t) EXCEPT !.sig = "bad"],
     [create_token(DefaultUser, t) EXCEPT !.complete = FALSE]}

\* verify_token: "claims", "none" (returns None) or "raises" (the KeyError of
\* a missing claim, which neither except clause catches)
verify_token(token, current_time) ==
    IF token.sig # "good" THEN "none"
    ELSE IF token.exp < current_time THEN "none"
    ELSE IF ~token.complete THEN "raises"
    ELSE "claims"

\* the UserClaims verify_token builds from the payload
ClaimsOf(token) ==
    [user_id |-> token.user_id, username |-> token.username, email |-> token.email,
     permissions |-> token.permissions, exp |-> token.exp, iat |-> token.iat]

\* needs_refresh
needs_refresh(claims, current_time) == claims.exp - current_time < REFRESH_THRESHOLD

\* refresh_token: [kind, token], kind "token", "none" (returns None) or
\* "raises" (the exception of verify_token passes through)
refresh_token(old_token, current_time) ==
    LET verdict == verify_token(old_token, current_time)
        claims == ClaimsOf(old_token)
    IN IF verdict = "raises" THEN [kind |-> "raises", token |-> old_token]
       ELSE IF verdict = "none" THEN [kind |-> "none", token |-> old_token]
       ELSE [kind |-> "token",
             token |-> create_token([user_id |-> claims.user_id,
                                     username |-> claims.username,
                                     email |-> claims.email,
                                     permissions |-> claims.permissions],
                                    current_time)]

NewAuth == [authenticated_connections |-> EmptyFn, connection_tokens |-> EmptyFn]

\* authenticate_connection, when verify_token returns claims (jwt_auth.py:104-106)
Authenticated(a, client_id, token) ==
    [authenticated_connections |-> Put(a.authenticated_connections, client_id,
                                       ClaimsOf(token)),
     connection_tokens |-> Put(a.connection_tokens, client_id, token)]

\* get_user_claims / has_permission
has_permission(a, client_id, permission) ==
    /\ client_id \in DOMAIN a.authenticated_connections
    /\ permission \in Range(a.authenticated_connections[client_id].permissions)

disconnect_user_tokens_only(a, client_id) ==
    [authenticated_connections |-> a.authenticated_connections,
     connection_tokens |->
        Restrict(a.connection_tokens, DOMAIN a.connection_tokens \ {client_id})]

\* disconnect_user
disconnect_user(a, client_id) ==
    [authenticated_connections |->
        Restrict(a.authenticated_connections, DOMAIN a.authenticated_connections \ {client_id}),
     connection_tokens |->
        Restrict(a.connection_tokens, DOMAIN a.connection_tokens \ {client_id})]

NoToken == [sig |-> None, complete |-> FALSE, exp |-> -1]

\* the tokens presented to the authenticator on its own at time t: for each
\* user a fresh one, one within the refresh threshold of its expiry and an
\* expired one, then one that jwt.decode rejects and one that lacks a claim
IssueAges == {0, TOKEN_EXPIRY - REFRESH_THRESHOLD + 1, TOKEN_EXPIRY + 1}

AuthTokensAt(t) ==
    {create_token(u, t - age) : u \in UserData, age \in IssueAges}
      \cup {[create_token(DefaultUser, t) EXCEPT !.sig = "bad"],
            [create_token(DefaultUser, t) EXCEPT !.complete = FALSE]}

NoBinding == [has |-> FALSE, permissions |-> <<>>]

NoAuthLast == [op |-> "init", client |-> None, token |-> NoToken, time |-> 0,
               verdict |-> None, kind |-> None, new_token |-> NoToken,
               was_bound |-> FALSE]

\* WebSocketAuthManager.authenticate_connection(client_id, token)
authenticate_connection(client_id, token) ==
    LET verdict == verify_token(token, now)
    IN /\ auth' = IF verdict = "claims" THEN Authenticated(auth, client_id, token)
                  ELSE auth
       /\ bound' = IF verdict = "claims"
                   THEN [bound EXCEPT ![client_id] =
                            [has |-> TRUE, permissions |-> token.permissions]]
                   ELSE bound
       /\ auth_last' = [NoAuthLast EXCEPT !.op = "authenticate", !.client = client_id,
                                          !.token = token, !.time = now,
                                          !.verdict = verdict,
                                          !.was_bound = bound[client_id].has]

\* JWTAuthenticator.refresh_token(old_token)
refresh(old_token) ==
    LET r == refresh_token(old_token, now)
    IN /\ auth_last' = [NoAuthLast EXCEPT !.op = "refresh", !.token = old_token,
                                          !.time = now,
                                          !.verdict = verify_token(old_token, now),
                                          !.kind = r.kind, !.new_token = r.token]
       /\ UNCHANGED <<auth, bound>>

\* WebSocketAuthManager.refresh_connection_token(client_id)
refresh_connection_token(client_id) ==
    LET has_token == client_id \in DOMAIN auth.connection_tokens
        has_claims == client_id \in DOMAIN auth.authenticated_connections
        old_token == IF has_token THEN auth.connection_tokens[client_id] ELSE NoToken
        due == /\ has_token
               /\ has_claims
               /\ needs_refresh(auth.authenticated_connections[client_id], now)
        r == IF due THEN refresh_token(old_token, now)
             ELSE [kind |-> "none", token |-> old_token]
        rebinds == r.kind = "token" /\ verify_token(r.token, now) = "claims"
    IN /\ auth' = IF rebinds THEN Authenticated(auth, client_id, r.token) ELSE auth
       /\ auth_last' = [NoAuthLast EXCEPT
                          !.op = "refresh_connection", !.client = client_id,
                          !.token = old_token, !.time = now,
                          !.verdict = IF due THEN verify_token(old_token, now) ELSE None,
                          !.kind = IF r.kind = "token" /\ ~rebinds THEN "none" ELSE r.kind,
                          !.new_token = r.token,
                          !.was_bound = bound[client_id].has]
       /\ UNCHANGED bound

\* WebSocketAuthManager.disconnect_user(client_id), called on its own
user_disconnected(client_id) ==
    /\ auth' = disconnect_user(auth, client_id)
    /\ bound' = [bound EXCEPT ![client_id] = NoBinding]
    /\ auth_last' = [NoAuthLast EXCEPT !.op = "disconnect", !.client = client_id,
                                       !.time = now,
                                       !.was_bound = bound[client_id].has]

\* time.time() between two calls
AuthSteps == {REFRESH_THRESHOLD, TOKEN_EXPIRY - REFRESH_THRESHOLD + 1}

AuthTick(d) == now' = now + d

AuthInit ==
    /\ auth_last = NoAuthLast
    /\ bound = [c \in Clients |-> NoBinding]

----------------------------------------------------------------------------
(* enhanced_websocket_endpoint (main.py:668-805), one coroutine per        *)
(* connection id, cut at its awaits                                        *)

NoAttempt == [ip |-> None, token |-> NoToken, outcome |-> None, raised |-> FALSE,
              was_active |-> FALSE]

\* main.py:674-694, to the first await that suspends: the rate check, the
\* authentication, and connect() up to accept
ws_open(c, ip, token) ==
    /\ ws_pc[c] = "new"
    /\ LET rate == can_connect(limiter, ip, c, now)
           verdict == verify_token(token, now)
           active == BD_Cleanup(manager.active_connections, ACTIVE_TTL, now)
           attempt == [NoAttempt EXCEPT !.ip = ip, !.token = token]
       IN /\ limiter' = rate.limiter
          /\ IF ~rate.ok
             THEN \* close(1013); return
                  /\ ws_pc' = [ws_pc EXCEPT ![c] = "ended"]
                  /\ ws_attempt' = [ws_attempt EXCEPT ![c] =
                                       [attempt EXCEPT !.outcome = "rate_limited"]]
                  /\ transport' = [transport EXCEPT ![c] = [state |-> "closed", code |-> RATE_LIMIT_CLOSE]]
                  /\ UNCHANGED <<auth, manager, accepting, reg_last>>
             ELSE IF verdict = "raises"
             THEN \* the KeyError leaves the endpoint
                  /\ ws_pc' = [ws_pc EXCEPT ![c] = "ended"]
                  /\ ws_attempt' = [ws_attempt EXCEPT ![c] =
                                       [attempt EXCEPT !.outcome = "auth_failed",
                                                       !.raised = TRUE]]
                  /\ transport' = [transport EXCEPT ![c] = [state |-> "closed", code |-> 0]]
                  /\ UNCHANGED <<auth, manager, accepting, reg_last>>
             ELSE IF verdict = "none"
             THEN \* await websocket.close(code=4001)
                  /\ ws_pc' = [ws_pc EXCEPT ![c] = "auth_failed"]
                  /\ ws_attempt' = [ws_attempt EXCEPT ![c] =
                                       [attempt EXCEPT !.outcome = "auth_failed"]]
                  /\ transport' = [transport EXCEPT ![c] = [state |-> "closed", code |-> AUTH_CLOSE]]
                  /\ UNCHANGED <<auth, manager, accepting, reg_last>>
             ELSE /\ auth' = Authenticated(auth, c, token)
                  /\ manager' = [manager EXCEPT !.active_connections = active]
                  /\ IF Len(active.keys) >= MAX_CONNECTIONS
                     THEN \* await websocket.close(code=1013) in connect()
                          /\ ws_pc' = [ws_pc EXCEPT ![c] = "capacity"]
                          /\ ws_attempt' = [ws_attempt EXCEPT ![c] =
                                               [attempt EXCEPT !.outcome = "capacity"]]
                          /\ transport' = [transport EXCEPT ![c] =
                                              [state |-> "closed", code |-> CAPACITY_CLOSE]]
                          /\ accepting' = accepting
                          /\ reg_last' = [NoRegLast EXCEPT !.op = "connect_rejected",
                                                           !.client = c]
                     ELSE \* await websocket.accept() in connect()
                          /\ ws_pc' = [ws_pc EXCEPT ![c] = "accepting"]
                          /\ ws_attempt' = [ws_attempt EXCEPT ![c] = attempt]
                          /\ transport' = [transport EXCEPT ![c] =
                                              [state |-> "accepting", code |-> 0]]
                          /\ accepting' = accepting \cup {c}
                          /\ reg_last' = [NoRegLast EXCEPT !.op = "connect_check",
                                                           !.client = c]
    /\ UNCHANGED tasks

\* main.py:688-689: after the close, the slot is given back
ws_auth_failed(c) ==
    /\ ws_pc[c] = "auth_failed"
    /\ limiter' = on_disconnect(limiter, ws_attempt[c].ip, c)
    /\ ws_pc' = [ws_pc EXCEPT ![c] = "ended"]
    /\ UNCHANGED <<auth, ws_attempt, manager, tasks, transport, accepting, reg_last>>

\* connect() after accept (main.py:98-110); the endpoint then waits in
\* receive_text()
ws_accepted(c) ==
    /\ ws_pc[c] = "accepting"
    /\ connect_accepted(c)
    /\ ws_pc' = [ws_pc EXCEPT ![c] = "active"]
    /\ ws_attempt' = [ws_attempt EXCEPT ![c].was_active = TRUE]
    /\ UNCHANGED <<limiter, auth>>

\* the except clause (main.py:802-805)
ws_cleanup(c) ==
    /\ manager' = Disconnected(manager, c)
    /\ tasks' = Cancel(tasks, TaskOf(manager, c))
    /\ reg_last' = [NoRegLast EXCEPT !.op = "disconnect", !.client = c,
                                     !.task = TaskOf(manager, c),
                                     !.repeat = (reg_last.op = "disconnect"
                                                    /\ reg_last.client = c),
                                     !.prev_task = reg_last.task]
    /\ auth' = disconnect_user(auth, c)
    /\ limiter' = on_disconnect(limiter, ws_attempt[c].ip, c)

\* receive_text() raises WebSocketDisconnect: the client has gone
ws_client_gone(c) ==
    /\ ws_pc[c] = "active"
    /\ ws_cleanup(c)
    /\ ws_pc' = [ws_pc EXCEPT ![c] = "ended"]
    /\ ws_attempt' = [ws_attempt EXCEPT ![c].outcome = "closed"]
    /\ transport' = [transport EXCEPT ![c] = [state |-> "closed", code |-> 0]]
    /\ UNCHANGED accepting

\* receive_text() returns a message longer than MAX_MESSAGE_SIZE
\* (main.py:699-701): close(code=1009); return
ws_oversize(c) ==
    /\ ws_pc[c] = "active"
    /\ ws_pc' = [ws_pc EXCEPT ![c] = "ended"]
    /\ ws_attempt' = [ws_attempt EXCEPT ![c].outcome = "oversize"]
    /\ transport' = [transport EXCEPT ![c] = [state |-> "closed", code |-> SIZE_CLOSE]]
    /\ UNCHANGED <<manager, tasks, accepting, reg_last, limiter, auth>>

\* after connect() has closed a connection for capacity it returns normally
\* and the endpoint calls receive_text() on the closed, never accepted socket.
\* What that raises is the framework's choice: WebSocketDisconnect, which the
\* except clause catches, or an error that leaves the endpoint.
ws_capacity_end(c, caught) ==
    /\ ws_pc[c] = "capacity"
    /\ IF caught
       THEN ws_cleanup(c)
       ELSE UNCHANGED <<manager, tasks, reg_last, auth, limiter>>
    /\ ws_pc' = [ws_pc EXCEPT ![c] = "ended"]
    /\ ws_attempt' = [ws_attempt EXCEPT ![c].raised = ~caught]
    /\ UNCHANGED <<transport, accepting>>

WsInit ==
    /\ limiter = NewLimiter
    /\ auth = NewAuth
    /\ ws_pc = [c \in Clients |-> "new"]
    /\ ws_attempt = [c \in Clients |-> NoAttempt]

----------------------------------------------------------------------------
(* The lock engine as a state machine                                      *)

LockInit ==
    /\ project_locks = EmptyMap
    /\ project_conflicts = EmptyMap
    /\ lock_history = EmptyMap
    /\ last = NoLast
    /\ nreq = 0

Init == LockInit /\ RegInit /\ WsInit /\ RateInit /\ SendInit /\ ConnInit /\ AuthInit
        /\ CollInit /\ SweepInit /\ LoopInit /\ ShadowInit /\ OrderInit

\* single-component requests with well-formed bodies: lock-set, read, conflict
\* check, conflict resolution.  No connection is subscribed, so the broadcasts
\* of the handlers find no subscriber set and leave the manager as it is.
Next ==
    /\ nreq < MaxRequests
    /\ \/ \E p \in Projects, c \in Components : \E lock \in WellFormedLock(c) :
                update_component_lock(p, c, lock)
       \/ \E p \in Projects : get_project_locks(p)
       \/ \E p \in Projects, components \in SeqsUpTo(Components, MaxIds) :
                check_lock_conflicts(p, components)
       \/ \E p \in Projects, k \in ConflictIds : resolve_conflict(p, k)
    /\ UNCHANGED <<regVars, wsVars, rateVars, sendVars, connVars, authVars, collVars, sweepVars, extVars,
                 now>>

Spec == Init /\ [][Next]_vars

\* bulk requests mixed with single lock-sets and reads
NextBulk ==
    /\ nreq < MaxBulkRequests
    /\ \/ \E p \in Projects, c \in Components, lock \in ComponentLock :
                update_component_lock(p, c, lock)
       \/ \E p \in Projects, operations \in BulkRequests : bulk_update_locks(p, operations)
       \/ \E p \in Projects : get_project_locks(p)
    /\ UNCHANGED <<regVars, wsVars, rateVars, sendVars, connVars, authVars, collVars, sweepVars, extVars,
                 now>>

SpecBulk == Init /\ [][NextBulk]_vars

\* every request of the lock engine: lock-set, bulk, read, conflict check,
\* conflict resolution and the list of outstanding conflicts
NextEngine ==
    /\ nreq < MaxEngineRequests
    /\ \/ \E p \in Projects, c \in Components : \E lock \in WellFormedLock(c) :
                update_component_lock(p, c, lock)
       \/ \E p \in Projects, operations \in BulkRequests : bulk_update_locks(p, operations)
       \/ \E p \in Projects : get_project_locks(p)
       \/ \E p \in Projects, components \in SeqsUpTo(Components, MaxIds) :
                check_lock_conflicts(p, components)
       \/ \E p \in Projects, k \in ConflictIds : resolve_conflict(p, k)
       \/ \E p \in Projects : get_project_conflicts(p)
    /\ UNCHANGED <<regVars, wsVars, rateVars, sendVars, connVars, authVars, collVars, sweepVars, extVars,
                 now>>

SpecEngine == Init /\ [][NextEngine]_vars

----------------------------------------------------------------------------
(* The connection registry as a state machine: the manager's methods       *)
(* called in any order on any connection id, and the clock                 *)

NextReg ==
    /\ nsteps < MaxRegSteps
    /\ nsteps' = nsteps + 1
    /\ \/ \E c \in Clients : connect_check(c) /\ UNCHANGED now
       \/ \E c \in Clients : connect_accepted(c) /\ UNCHANGED now
       \/ \E c \in Clients : disconnect(c) /\ UNCHANGED now
       \/ \E c \in Clients, p \in Projects :
                subscribe_to_project(c, p) /\ UNCHANGED now
       \/ \E c \in Clients, p \in Projects :
                unsubscribe_from_project(c, p) /\ UNCHANGED now
       \/ \E task \in DOMAIN tasks : heartbeat_exit(task) /\ UNCHANGED now
       \/ Tick /\ UNCHANGED <<manager, tasks, transport, accepting, reg_last>>
    /\ UNCHANGED <<lockVars, wsVars, rateVars, sendVars, connVars, authVars, collVars,
                 sweepVars, extVars>>

SpecReg == Init /\ [][NextReg]_vars

----------------------------------------------------------------------------
(* The websocket endpoint as a state machine: connection attempts, each    *)
(* with a fresh connection id, from their first line to their end          *)

NextWs ==
    /\ nsteps < MaxWsSteps
    /\ nsteps' = nsteps + 1
    /\ \/ \E c \in Clients, ip \in Addresses : \E token \in TokensAt(now) :
                ws_open(c, ip, token) /\ UNCHANGED now
       \/ \E c \in Clients : ws_auth_failed(c) /\ UNCHANGED now
       \/ \E c \in Clients : ws_accepted(c) /\ UNCHANGED now
       \/ \E c \in Clients : ws_client_gone(c) /\ UNCHANGED now
       \/ \E c \in Clients : ws_oversize(c) /\ UNCHANGED now
       \/ \E c \in Clients, caught \in BOOLEAN : ws_capacity_end(c, caught) /\ UNCHANGED now
       \/ Tick /\ UNCHANGED <<manager, tasks, transport, accepting, reg_last, wsVars>>
    /\ UNCHANGED <<lockVars, rateVars, sendVars, connVars, authVars, collVars,
                 sweepVars, extVars>>

SpecWs == Init /\ [][NextWs]_vars

----------------------------------------------------------------------------
(* The manager's sends as a state machine: connections are made, subscribe *)
(* and leave while messages, probes and one broadcast at a time are sent   *)

NextMsg ==
    /\ nsteps < MaxMsgSteps
    /\ nsteps' = nsteps + 1
    /\ \/ \E c \in Peers : connect_check(c) /\ UNCHANGED <<rateVars, sendVars, now>>
       \/ \E c \in Peers : connect_accepted(c) /\ UNCHANGED <<rateVars, sendVars, now>>
       \/ \E c \in Peers : disconnect(c) /\ UNCHANGED <<rateVars, sendVars, now>>
       \/ \E c \in Peers, p \in Projects :
                subscribe_to_project(c, p) /\ UNCHANGED <<rateVars, sendVars, now>>
       \/ \E c \in Peers, kind \in SendKinds :
                send_personal_message(c, kind.oversize, kind.fails) /\ UNCHANGED now
       \/ \E task \in DOMAIN tasks, fails \in BOOLEAN :
                heartbeat_send(task, fails) /\ UNCHANGED now
       \/ \E p \in Projects, exclude \in Peers \cup {None} :
                broadcast_to_project(p, exclude) /\ UNCHANGED now
       \/ \E fails \in BOOLEAN : broadcast_resume(fails) /\ UNCHANGED now
       \/ Tick /\ UNCHANGED <<manager, tasks, transport, accepting, reg_last,
                              rateVars, sendVars>>
    /\ UNCHANGED <<lockVars, wsVars, connVars, authVars, collVars,
                 sweepVars, extVars>>

SpecMsg == Init /\ [][NextMsg]_vars

----------------------------------------------------------------------------
(* The message limiter as a state machine: checks for two connections, the *)
(* periodic sweep, and the clock                                           *)

NextRate ==
    /\ nsteps < MaxRateSteps
    /\ nsteps' = nsteps + 1
    /\ \/ \E c \in Peers : check_message_rate(c) /\ UNCHANGED now
       \/ periodic_cleanup /\ UNCHANGED now
       \/ \E d \in RateSteps : RateTick(d) /\ UNCHANGED rateVars
    /\ UNCHANGED <<lockVars, manager, tasks, transport, accepting, reg_last, wsVars, sendVars,
                 connVars, authVars, collVars,
                 sweepVars, extVars>>

SpecRate == Init /\ [][NextRate]_vars

\* the same with a second limiter that gets every check and no sweep
NextShadow ==
    /\ nsteps < MaxShadowSteps
    /\ nsteps' = nsteps + 1
    /\ \/ \E c \in Peers : shadow_check(c) /\ UNCHANGED now
       \/ shadow_cleanup /\ UNCHANGED now
       \/ \E d \in RateSteps : RateTick(d) /\ UNCHANGED <<rateVars, shadowVars>>
    /\ UNCHANGED <<lockVars, manager, tasks, transport, accepting, reg_last, wsVars, sendVars,
                 connVars, authVars, collVars, sweepVars, loopVars, orderVars>>

SpecShadow == Init /\ [][NextShadow]_vars

----------------------------------------------------------------------------
(* The connection limiter as a state machine: checks and releases for any  *)
(* address and connection id, and the clock                                *)

NextConn ==
    /\ nsteps < MaxConnSteps
    /\ nsteps' = nsteps + 1
    /\ \/ \E ip \in Addresses, c \in Clients :
                check_connection_rate(ip, c) /\ UNCHANGED now
       \/ \E ip \in Addresses, c \in Clients :
                connection_released(ip, c) /\ UNCHANGED now
       \/ \E d \in RateSteps : RateTick(d) /\ UNCHANGED <<limiter, connVars>>
    /\ UNCHANGED <<lockVars, manager, tasks, transport, accepting, reg_last>>
    /\ UNCHANGED <<auth, ws_pc, ws_attempt, rateVars, sendVars, authVars, collVars,
                 sweepVars, extVars>>

SpecConn == Init /\ [][NextConn]_vars

----------------------------------------------------------------------------
(* The authenticator and the session manager as a state machine            *)

NextAuth ==
    /\ nsteps < MaxAuthSteps
    /\ nsteps' = nsteps + 1
    /\ \/ \E c \in Peers : \E token \in AuthTokensAt(now) :
                authenticate_connection(c, token) /\ UNCHANGED now
       \/ \E token \in AuthTokensAt(now) : refresh(token) /\ UNCHANGED now
       \/ \E c \in Peers : refresh_connection_token(c) /\ UNCHANGED now
       \/ \E c \in Peers : user_disconnected(c) /\ UNCHANGED now
       \/ \E d \in AuthSteps : AuthTick(d) /\ UNCHANGED <<auth, authVars>>
    /\ UNCHANGED <<lockVars, manager, tasks, transport, accepting, reg_last>>
    /\ UNCHANGED <<limiter, ws_pc, ws_attempt, rateVars, sendVars, connVars, collVars,
                 sweepVars, extVars>>

SpecAuth == Init /\ [][NextAuth]_vars

----------------------------------------------------------------------------
(* A bounded collection as a state machine; an operation that never        *)
(* returns leaves no further operation possible                            *)

NextColl ==
    /\ nsteps < MaxCollSteps
    /\ ~coll.hung
    /\ nsteps' = nsteps + 1
    /\ \/ \E kind \in CollKinds, cap \in 1..MaxCap, ttl \in {NO_TTL, TTL_SECONDS} :
                coll_new(kind, cap, ttl) /\ UNCHANGED now
       \/ \E k \in CollKeys : lru_get(k) /\ UNCHANGED now
       \/ \E k \in CollKeys, v \in CollValues : lru_put(k, v) /\ UNCHANGED now
       \/ \E k \in CollKeys : lru_remove(k) /\ UNCHANGED now
       \/ \E k \in CollKeys : bs_add(k) /\ UNCHANGED now
       \/ \E k \in CollKeys : bs_discard(k) /\ UNCHANGED now
       \/ \E k \in CollKeys, v \in CollValues : bd_setitem(k, v) /\ UNCHANGED now
       \/ \E k \in CollKeys : bd_get(k) /\ UNCHANGED now
       \/ \E k \in CollKeys : bd_contains(k) /\ UNCHANGED now
       \/ bd_keys /\ UNCHANGED now
       \/ \E k \in CollKeys : bd_delitem(k) /\ UNCHANGED now
       \/ \E d \in CollSteps : CollTick(d) /\ UNCHANGED collVars
    /\ UNCHANGED <<lockVars, manager, tasks, transport, accepting, reg_last>>
    /\ UNCHANGED <<wsVars, rateVars, sendVars, connVars, authVars, sweepVars, extVars>>

SpecColl == Init /\ [][NextColl]_vars

----------------------------------------------------------------------------
(* The registry with its presence sweep and the inbound messages of its    *)
(* connections                                                             *)

NextSweep ==
    /\ nsteps < MaxSweepSteps
    /\ nsteps' = nsteps + 1
    /\ \/ \E c \in Peers : connect_check(c)
                /\ UNCHANGED <<rateVars, sweepVars, now>>
       \/ \E c \in Peers : connect_accepted(c)
                /\ last_activity' = [last_activity EXCEPT ![c] = now]
                /\ UNCHANGED <<rateVars, sweep_last, now>>
       \/ \E c \in Peers, p \in Projects : subscribe_to_project(c, p)
                /\ last_activity' = [last_activity EXCEPT ![c] = now]
                /\ UNCHANGED <<rateVars, sweep_last, now>>
       \/ \E c \in Peers : inbound_message(c) /\ UNCHANGED now
       \/ presence_sweep /\ UNCHANGED <<rateVars, now>>
       \/ \E d \in SweepSteps : SweepTick(d)
                /\ UNCHANGED <<manager, tasks, transport, accepting, reg_last,
                               rateVars, sweepVars>>
    /\ UNCHANGED <<lockVars, wsVars, sendVars, connVars, authVars, collVars, extVars>>

SpecSweep == Init /\ [][NextSweep]_vars

----------------------------------------------------------------------------
(* The endpoint loops of the registered connections, with the liveness     *)
(* probes and the presence sweep                                           *)

NextLoop ==
    /\ nsteps < MaxLoopSteps
    /\ nsteps' = nsteps + 1
    /\ \/ \E c \in Peers : connect_check(c)
                /\ UNCHANGED <<rateVars, sweepVars, loopVars, out, now>>
       \/ \E c \in Peers : connect_accepted(c)
                /\ last_activity' = [last_activity EXCEPT ![c] = now]
                /\ UNCHANGED <<rateVars, sweep_last, loopVars, out, now>>
       \/ \E c \in Peers, ch \in LoopChannels, p \in Projects :
                channel_message(c, ch, p) /\ UNCHANGED <<out, now>>
       \/ \E task \in DOMAIN tasks : heartbeat_send(task, FALSE)
                /\ UNCHANGED <<sweepVars, loopVars, now>>
       \/ presence_sweep /\ UNCHANGED <<rateVars, loopVars, out, now>>
       \/ \E d \in SweepSteps : SweepTick(d)
                /\ UNCHANGED <<manager, tasks, transport, accepting, reg_last,
                               rateVars, sweepVars, loopVars, out>>
    /\ UNCHANGED <<lockVars, wsVars, bc, connVars, authVars, collVars, shadowVars, orderVars>>

SpecLoop == Init /\ [][NextLoop]_vars

----------------------------------------------------------------------------
(* Lock-set calls on one component while connections, each with an id of   *)
(* its own, come, subscribe to the project and go                          *)

NextOrder ==
    /\ nsteps < MaxOrderSteps
    /\ nsteps' = nsteps + 1
    /\ \/ \E c \in Peers : /\ transport[c].state = "none"
                           /\ connect_check(c)
                           /\ UNCHANGED <<lockVars, orderVars>>
       \/ \E c \in Peers : connect_accepted(c) /\ UNCHANGED <<lockVars, orderVars>>
       \/ \E c \in Peers : /\ transport[c].state = "open"
                           /\ BD_Has(manager.active_connections, c)
                           /\ subscribe_to_project(c, OrderProject)
                           /\ UNCHANGED <<lockVars, orderVars>>
       \/ \E c \in Peers : client_gone(c) /\ UNCHANGED <<lockVars, orderVars>>
       \/ \E lock \in OrderLocks : lockset_begin(lock)
       \/ \E k \in DOMAIN calls, late \in BOOLEAN : lockset_resume(k, late)
    /\ UNCHANGED <<wsVars, rateVars, sendVars, connVars, authVars, collVars, sweepVars,
                 loopVars, shadowVars, now>>

SpecOrder == Init /\ [][NextOrder]_vars

----------------------------------------------------------------------------
(* Properties of the lock engine                                           *)

\* the locks a dict holds under key c
LocksAt(d, c) == {e[2] : e \in {x \in d : x[1] = c}}

LastItems == BulkItems(last.operations)

\* the locks a bulk request asks to set on component c
BulkNewLocks(c) ==
    {BulkLock(c, LastItems[i].lockLevel) :
        i \in {j \in 1..Len(LastItems) :
                 /\ LastItems[j].type = "lock"
                 /\ LastItems[j].lockLevel # None
                 /\ LastItems[j].componentId = c}}

\* an item of a bulk request that can change the table: a lock with a level,
\* or an unlock
Effective(item) ==
    \/ item.type = "lock" /\ item.lockLevel # None
    \/ item.type = "unlock"

EffectiveOn(c) ==
    {i \in 1..Len(LastItems) : LastItems[i].componentId = c /\ Effective(LastItems[i])}

MaxOf(S) == CHOOSE x \in S : \A y \in S : y <= x

\* C1: every (project, component) pair holds at most one lock, and right after
\* a single or bulk lock-set on an already-locked component the table holds
\* for it the old lock or the new lock, never both.
C1_AtMostOneLock ==
    /\ \A p \in DOMAIN project_locks : \A c \in Components :
            Cardinality(LocksAt(project_locks[p], c)) <= 1
    /\ (last.op = "update_component_lock" /\ DictHas(last.before, last.component))
        => LocksAt(LocksOf(last.project), last.component)
              \in {LocksAt(last.before, last.component), {last.lock}}
    /\ last.op = "bulk_update_locks"
        => \A c \in Components :
              (DictHas(last.before, c) /\ BulkNewLocks(c) # {})
                => /\ LocksAt(LocksOf(last.project), c)
                        \subseteq LocksAt(last.before, c) \cup BulkNewLocks(c)
                   /\ Cardinality(LocksAt(LocksOf(last.project), c)) <= 1
                   /\ (\A i \in EffectiveOn(c) : LastItems[i].type = "lock")
                        => LocksAt(LocksOf(last.project), c) # {}

C1_Witness ==
    /\ last.op = "bulk_update_locks"
    /\ \E c \in Components :
          /\ DictHas(last.before, c)
          /\ BulkNewLocks(c) # {}
          /\ LocksAt(last.before, c) # LocksAt(LocksOf(last.project), c)
          /\ LocksAt(LocksOf(last.project), c) \subseteq BulkNewLocks(c)

\* C2: a single lock-set on an already-locked component is rejected as a
\* conflict, leaving the existing lock, exactly when the existing lock is not
\* overridable and the requester is not its owner; otherwise the new lock
\* replaces the old one.
C2_RejectNonOverridable ==
    (last.op = "update_component_lock" /\ last.old # NoLock)
      => IF ~last.old.canOverride /\ last.lock.lockedBy # last.old.lockedBy
         THEN /\ last.status = "conflict"
              /\ LocksAt(LocksOf(last.project), last.component) = {last.old}
         ELSE LocksAt(LocksOf(last.project), last.component) = {last.lock}

\* C3: check-conflicts reports exactly the requested components that hold a
\* lock; a conflict is override-eligible iff the lock's canOverride is true
\* and its level is not frozen; can_proceed iff every conflict is eligible.
C3_CheckConflicts ==
    last.op = "check_lock_conflicts"
      => /\ {last.conflicts[i].component_id : i \in 1..Len(last.conflicts)}
              = {last.components[i] : i \in 1..Len(last.components)}
                    \cap DictKeys(LocksOf(last.project))
         /\ \A i \in 1..Len(last.conflicts) :
              LET l == DictGet(LocksOf(last.project), last.conflicts[i].component_id)
              IN last.conflicts[i].can_override <=> (l.canOverride /\ l.level # "frozen")
         /\ last.can_proceed
              <=> \A i \in 1..Len(last.conflicts) : last.conflicts[i].can_override

\* C4: in a bulk request every component's operation is applied whatever
\* happens to the other listed components: a component ends as its last
\* applicable operation leaves it, and an inapplicable operation
\* (change_level, a lock without level, an unlock of an unlocked component)
\* changes nothing and stops nothing.
C4_BulkIndependent ==
    last.op = "bulk_update_locks"
      => \A c \in Components :
            LET held == LocksAt(LocksOf(last.project), c)
            IN IF EffectiveOn(c) = {}
               THEN held = LocksAt(last.before, c)
               ELSE LET it == LastItems[MaxOf(EffectiveOn(c))]
                    IN IF it.type = "lock"
                       THEN held = {BulkLock(c, it.lockLevel)}
                       ELSE held = {}

C4_Witness ==
    /\ last.op = "bulk_update_locks"
    /\ Len(LastItems) >= 2
    /\ LastItems[1].type = "unlock"
    /\ ~DictHas(last.before, LastItems[1].componentId)
    /\ LastItems[2].type = "lock"
    /\ LastItems[2].componentId # LastItems[1].componentId
    /\ LocksAt(LocksOf(last.project), LastItems[2].componentId)
          = {BulkLock(LastItems[2].componentId, LastItems[2].lockLevel)}

\* C5: a bulk request returns one per-component result for every component
\* id listed in every operation, succeeded or not.
C5_BulkOneResultPerId ==
    last.op = "bulk_update_locks" => Len(last.affected) = TotalIds(last.operations)

\* C6: resolving a conflict id that is not outstanding returns a not-found
\* error, changes no state and broadcasts nothing.
C6_ResolveNotFound ==
    (last.op = "resolve_conflict" /\ ~last.found)
      => last.status = "not_found" /\ last.broadcast = <<>>

\* C7: every step that creates, replaces or deletes the lock of a component
\* appends an audit entry naming that component to the project's trail.
C7_AuditEveryMutation ==
    [][\A p \in Projects : \A c \in Components :
          LocksAt(LocksOf(p), c)' # LocksAt(LocksOf(p), c)
            => \E i \in (Len(HistoryOf(p)) + 1)..Len(HistoryOf(p)') :
                  HistoryOf(p)'[i].componentId = c]_vars

----------------------------------------------------------------------------
(* Properties of the connection registry                                   *)

Subscribed(c) ==
    {p \in Range(manager.project_subscribers.keys) :
        c \in manager.project_subscribers.val[p].data}

Observed(m, t) ==
    [active_connections |-> BD_Cleanup(m.active_connections, ACTIVE_TTL, t),
     project_subscribers |-> BD_Cleanup(m.project_subscribers, SUBSCRIBERS_TTL, t),
     user_presence |-> BD_Cleanup(m.user_presence, PRESENCE_TTL, t),
     heartbeat_intervals |-> m.heartbeat_intervals]

----------------------------------------------------------------------------
(* Properties of the websocket endpoint                                    *)

\* C10: a connection attempt that fails the connection-rate check or the
\* credential verification never becomes Active and, once it has ended, holds
\* no concurrent-connection slot, has no credential binding and is not in
\* the registry.
C10_FailedAttemptLeavesNothing ==
    \A c \in Clients :
        ws_attempt[c].outcome \in {"rate_limited", "auth_failed"}
          => /\ ~ws_attempt[c].was_active
             /\ ws_pc[c] # "active"
             /\ ws_pc[c] = "ended"
                  => /\ c \notin SlotHolders(limiter)
                     /\ c \notin DOMAIN auth.authenticated_connections
                     /\ c \notin DOMAIN auth.connection_tokens
                     /\ ~BD_Has(manager.active_connections, c)

\* C11: a connection refused because the global connection cap is reached
\* never becomes Active, is not registered, and once its attempt has ended
\* its rate-limiter slot and its credential binding have been released.
C11_CapacityRejectLeavesNothing ==
    \A c \in Clients :
        ws_attempt[c].outcome = "capacity"
          => /\ ~ws_attempt[c].was_active
             /\ ~BD_Has(manager.active_connections, c)
             /\ ~BD_Has(manager.heartbeat_intervals, c)
             /\ ws_pc[c] = "ended"
                  => /\ c \notin SlotHolders(limiter)
                     /\ c \notin DOMAIN auth.authenticated_connections
                     /\ c \notin DOMAIN auth.connection_tokens

\* connection id c has no registry state in manager m
Cleaned(m, c) ==
    /\ ~BD_Has(m.active_connections, c)
    /\ ~BD_Has(m.heartbeat_intervals, c)
    /\ \A p \in Range(m.project_subscribers.keys) : c \notin m.project_subscribers.val[p].data
    /\ ~BD_Has(m.user_presence, c)

\* C12: whenever an oversize message is detected, inbound from the client or
\* outbound in send, the connection's transport is closed with the
\* size-violation code and the connection is removed from the registry with
\* its liveness task, subscriptions and presence record.
C12_OversizeDisconnects ==
    /\ [](\A c \in Clients :
            ws_attempt[c].outcome = "oversize"
              => /\ transport[c] = [state |-> "closed", code |-> SIZE_CLOSE]
                 /\ Cleaned(manager, c)
                 /\ \A task \in DOMAIN tasks :
                       tasks[task].client = c => tasks[task].status # "running")
    /\ [][(out'.flip # out.flip /\ out'.op = "send" /\ out'.oversize)
            => /\ transport'[out'.client] = [state |-> "closed", code |-> SIZE_CLOSE]
               /\ Cleaned(manager', out'.client)
               /\ tasks' = Cancel(tasks, TaskOf(manager, out'.client))]_vars

\* the registry state of connection id c in manager m as reads at time t see it
RegistryOf(m, t, c) ==
    LET o == Observed(m, t)
    IN [active |-> BD_Has(o.active_connections, c),
        task |-> TaskOf(o, c),
        projects |-> {p \in Range(o.project_subscribers.keys) :
                         c \in o.project_subscribers.val[p].data},
        presence |-> IF BD_Has(o.user_presence, c) THEN o.user_presence.val[c] ELSE None]

\* C13: when a transport send to a connection fails, in send or in the
\* liveness-probe loop, exactly that connection is disconnected with full
\* registry cleanup, the send is not retried, and no other connection's
\* registry state changes.
C13_FailedSendDisconnects ==
    [][(out'.flip # out.flip /\ out'.op \in {"send", "heartbeat"} /\ out'.failed # {})
         => /\ ~out'.raised
            /\ Cleaned(manager', out'.client)
            /\ tasks' = Cancel(tasks, TaskOf(manager, out'.client))
            /\ Len(out'.sends) <= 1
            /\ \A d \in Clients \ {out'.client} :
                  RegistryOf(manager', now', d) = RegistryOf(manager, now', d)]_vars

\* C14: a broadcast attempts exactly one send to every member of the
\* project's subscriber set that is a live connection and is not the excluded
\* id, sends to no other connection, disconnects exactly the subscribers
\* whose send failed, and still delivers to all remaining subscribers.
\* Members and live connections are those at the start of the broadcast; a
\* member that stopped being live while the broadcast ran need not be sent to.
C14_BroadcastExactlyOnce ==
    [][(out'.flip # out.flip /\ out'.op = "broadcast")
         => LET targets == (out'.members \cap out'.live) \ {out'.exclude}
                live_now == Range(BD_Cleanup(manager.active_connections,
                                             ACTIVE_TTL, now).keys)
            IN /\ Range(out'.sends) \subseteq targets
               /\ Cardinality(Range(out'.sends)) = Len(out'.sends)
               /\ (targets \cap live_now) \subseteq Range(out'.sends)
               /\ \A c \in out'.failed : Cleaned(manager', c)
               /\ \A d \in Clients \ out'.failed :
                     RegistryOf(manager', now', d) = RegistryOf(manager, now', d)]_vars

\* the handshake rejections that close the transport themselves
Rejected(c) ==
    /\ ws_attempt[c].outcome \in {"rate_limited", "auth_failed", "capacity"}
    /\ ~(ws_attempt[c].outcome = "auth_failed" /\ ws_attempt[c].raised)

\* C15: a rejected handshake is closed with a close code that identifies the
\* cause: the code of an attempt rejected for capacity, for authentication
\* failure or for rate limiting is not a code used for either of the other
\* two causes, and the rejection comes before any message is exchanged.
C15_DistinctCloseCodes ==
    \A c \in Clients :
        Rejected(c)
          => /\ transport[c].state = "closed"
             /\ ~ws_attempt[c].was_active
             /\ ws_attempt[c].outcome = "capacity"
                  => transport[c].code \notin {0, RATE_LIMIT_CLOSE, AUTH_CLOSE}
             /\ ws_attempt[c].outcome = "rate_limited"
                  => transport[c].code \notin {0, CAPACITY_CLOSE, AUTH_CLOSE}
             /\ ws_attempt[c].outcome = "auth_failed"
                  => transport[c].code \notin {0, CAPACITY_CLOSE, RATE_LIMIT_CLOSE}

----------------------------------------------------------------------------
(* Properties of the message limiter                                       *)

\* the step is a message-rate check
CheckStep == rate_last'.op = "check" /\ now' = now /\ nsteps' = nsteps + 1

\* C16: for every connection and every instant t, at most max-per-minute
\* checks with a time in the 60 seconds up to t returned allowed; outside a
\* cooldown a check is allowed exactly when fewer than max allowed checks lie
\* in its window, so the first max checks in an empty window pass and the
\* next one fails.
C16_WindowCap ==
    /\ \A c \in Clients : \A t \in Range(allowed_log[c]) \cup {now} :
          Cardinality(InWindow(allowed_log[c], t)) <= MAX_MESSAGES_PER_MINUTE
    /\ (rate_last.op = "check" /\ ~rate_last.cooling)
          => (rate_last.ok <=> rate_last.in_window < MAX_MESSAGES_PER_MINUTE)

C16_Witness ==
    /\ rate_last.op = "check"
    /\ rate_last.kind = "violation"
    /\ rate_last.in_window = MAX_MESSAGES_PER_MINUTE
    /\ Len(allowed_log[rate_last.client]) > MAX_MESSAGES_PER_MINUTE

\* C17: successive violations by one connection get escalating cooldowns: the
\* first 10 seconds, the one that follows a 10-second cooldown (within the
\* window of the violation before it) 60 seconds, every later one the full
\* configured cooldown.
C17_EscalatingCooldowns ==
    \A c \in Clients : \A i \in 1..Len(violation_log[c]) :
        LET v == violation_log[c][i]
        IN IF i = 1 THEN v.seconds = FIRST_COOLDOWN
           ELSE LET u == violation_log[c][i - 1]
                IN v.time - u.time <= WINDOW
                     => v.seconds = IF u.seconds = FIRST_COOLDOWN THEN SECOND_COOLDOWN
                                    ELSE COOLDOWN_PERIOD

----------------------------------------------------------------------------
(* Properties of the connection limiter                                    *)

\* C20: no address ever has more than max-per-address connection ids holding
\* a slot; a check from an address already at the max fails; on_disconnect
\* releases the id's slot and no other, and a check made when the address is
\* below the max is admitted again (unless the address is blocked or has
\* used up its attempts of the minute).
C20_SlotsPerAddress ==
    /\ [](\A ip \in DOMAIN limiter.connections_by_ip :
             Cardinality(limiter.connections_by_ip[ip]) <= MAX_CONNECTIONS_PER_IP)
    /\ []((conn_last.op = "check" /\ conn_last.holders >= MAX_CONNECTIONS_PER_IP)
             => ~conn_last.ok)
    /\ []((conn_last.op = "check" /\ conn_last.holders < MAX_CONNECTIONS_PER_IP
             /\ ~conn_last.blocked
             /\ conn_last.attempts < MAX_CONNECTIONS_PER_IP * 2)
             => /\ conn_last.ok
                /\ conn_last.client \in Holders(limiter, conn_last.ip))
    /\ [][(conn_last'.op = "disconnect" /\ nsteps' = nsteps + 1 /\ now' = now)
            => /\ Holders(limiter', conn_last'.ip)
                    = Holders(limiter, conn_last'.ip) \ {conn_last'.client}
               /\ \A ip \in Addresses \ {conn_last'.ip} :
                     Holders(limiter', ip) = Holders(limiter, ip)]_vars

C20_Witness ==
    /\ conn_last.op = "check"
    /\ conn_last.after_release
    /\ conn_last.ok
    /\ conn_last.holders = MAX_CONNECTIONS_PER_IP - 1

\* the address of the last check is blocked for the five minutes after it
BlockedFrom(lim, c_last) ==
    /\ c_last.ip \in DOMAIN lim.blocked_ips
    /\ lim.blocked_ips[c_last.ip] >= c_last.time + BLOCK_SECONDS

\* C21: a check from an address that has already made 2 x max checks within
\* the last minute, admitted or rejected, fails and leaves the address
\* blocked for five minutes; a check from a blocked address fails.
C21_AttemptsBlock ==
    /\ (conn_last.op = "check" /\ conn_last.blocked) => ~conn_last.ok
    /\ (conn_last.op = "check" /\ ~conn_last.blocked
           /\ conn_last.all_attempts >= MAX_CONNECTIONS_PER_IP * 2)
         => (~conn_last.ok /\ BlockedFrom(limiter, conn_last))

\* the same, counting only the admitted attempts as the code does
C21_AdmittedAttemptsBlock ==
    /\ (conn_last.op = "check" /\ conn_last.blocked) => ~conn_last.ok
    /\ (conn_last.op = "check" /\ ~conn_last.blocked
           /\ conn_last.attempts >= MAX_CONNECTIONS_PER_IP * 2)
         => (~conn_last.ok /\ BlockedFrom(limiter, conn_last))

----------------------------------------------------------------------------
(* Properties of the authenticator and the session manager                 *)

\* a token with a valid signature, a complete claim set and an expiry that
\* has not passed at time t
Valid(token, t) == token.sig = "good" /\ token.complete /\ token.exp >= t

Permissions == {"read", "write", "admin"}

\* C22: verify returns claims for a token with a valid signature, a complete
\* claim set and an unexpired expiry, and returns null, without raising, for
\* every other token.
C22_VerifyNeverRaises ==
    auth_last.op = "authenticate"
       => auth_last.verdict
             = (IF Valid(auth_last.token, auth_last.time) THEN "claims" ELSE "none")

SameSubject(t1, t2) ==
    /\ t1.user_id = t2.user_id
    /\ t1.username = t2.username
    /\ t1.email = t2.email
    /\ t1.permissions = t2.permissions

\* C23: refresh returns a new token exactly when the old token still
\* verifies, with the same subject id, display name, email and permission
\* list and an expiry one token lifetime after the refresh; every other old
\* token yields null.
C23_RefreshOnlyValid ==
    /\ auth_last.op = "refresh"
         => IF Valid(auth_last.token, auth_last.time)
            THEN /\ auth_last.kind = "token"
                 /\ SameSubject(auth_last.new_token, auth_last.token)
                 /\ auth_last.new_token.exp = auth_last.time + TOKEN_EXPIRY
                 /\ Valid(auth_last.new_token, auth_last.time)
            ELSE auth_last.kind = "none"
    /\ (auth_last.op = "refresh_connection" /\ auth_last.kind # "none")
         => /\ auth_last.kind = "token"
            /\ Valid(auth_last.token, auth_last.time)
            /\ SameSubject(auth_last.new_token, auth_last.token)
            /\ auth_last.new_token.exp = auth_last.time + TOKEN_EXPIRY

\* C24: has_permission(c, p) is true exactly when c has bound claims, from a
\* successful authentication not yet followed by a disconnect, whose
\* permission list contains p; a failed authentication binds nothing; after
\* the disconnect of c it is false for every p.
C24_PermissionIffBound ==
    /\ \A c \in Clients : \A p \in Permissions :
          has_permission(auth, c, p)
             <=> (bound[c].has /\ p \in Range(bound[c].permissions))
    /\ (auth_last.op = "authenticate" /\ auth_last.verdict # "claims"
           /\ ~auth_last.was_bound)
         => \A p \in Permissions : ~has_permission(auth, auth_last.client, p)
    /\ auth_last.op = "disconnect"
         => \A p \in Permissions : ~has_permission(auth, auth_last.client, p)

C24_Witness ==
    /\ auth_last.op = "disconnect"
    /\ auth_last.was_bound
    /\ \E c \in Clients : has_permission(auth, c, "write")

----------------------------------------------------------------------------
(* Properties of the bounded collections                                   *)

\* C25: an LRU map, a bounded map and a bounded set constructed with
\* capacity n >= 1 never hold more than n entries.
C25_NeverOverCapacity ==
    /\ Cardinality(CollKeysOf(coll)) <= coll.cap
    /\ Len(coll.lru.keys) <= coll.cap
    /\ Len(coll.bd.keys) <= coll.cap
    /\ Len(coll.bs.order) <= coll.cap

C25_Witness ==
    /\ coll_last.op \in {"put", "setitem", "add"}
    /\ ~coll_last.hit
    /\ Cardinality(coll_last.before) = coll.cap
    /\ coll.cap > 1

\* C26: the LRU map and the bounded set retain exactly the most recently
\* used keys: a get of a present key or a re-add of a present item makes it
\* the most recent, and a new key in a full container evicts exactly the
\* least recently used one.
C26_RetainsMostRecent ==
    coll.kind \in {"lru", "set"}
       => /\ CollKeysOf(coll) = Range(ideal)
          /\ coll.kind = "lru" => coll.lru.keys = ideal
          /\ coll.kind = "set" => coll.bs.order = ideal
          /\ (coll_last.op \in {"put", "add"} /\ ~coll_last.hit
                 /\ Cardinality(coll_last.before) >= coll.cap)
               => Cardinality(coll_last.before \ CollKeysOf(coll)) = 1

C26_Witness ==
    /\ coll.kind = "lru"
    /\ coll_last.op = "put"
    /\ coll_last.after_touch
    /\ ~coll_last.hit
    /\ Cardinality(coll_last.before) = coll.cap
    /\ coll_last.touched \in Range(coll.lru.keys)

\* C27: the bounded map has the LRU semantics of the LRU map: an assignment
\* to a present key updates it, makes it the most recent and evicts nothing,
\* even when the map is full; only a new key in a full map evicts, and then
\* exactly the least recently used entry.
C27_DictSameLru ==
    (coll.kind = "dict" /\ coll.ttl = NO_TTL)
       => /\ ~coll.hung
          /\ Range(coll.bd.keys) = Range(ideal)
          /\ coll.bd.order = ideal

\* the same for every assignment of a key that is not present
C27_DictNewKeyLru ==
    (coll.kind = "dict" /\ coll.ttl = NO_TTL /\ coll_last.op = "setitem"
        /\ ~coll_last.hit)
       => /\ ~coll.hung
          /\ coll_last.before \ Range(coll.bd.keys)
                = (IF Cardinality(coll_last.before) >= coll.cap
                   THEN {coll_last.oldest} ELSE {})

\* C28: in a bounded map with a ttl, an entry last assigned at time t is
\* absent from every read made at a time >= t + ttl.
C28_TtlAbsentFrom ==
    (coll.kind = "dict" /\ coll.ttl # NO_TTL
        /\ coll_last.op \in {"get", "contains", "keys"})
       => \A k \in coll_last.seen : coll_last.time < born[k] + coll.ttl

\* the same for reads made at a time > t + ttl
C28_TtlAbsentAfter ==
    (coll.kind = "dict" /\ coll.ttl # NO_TTL
        /\ coll_last.op \in {"get", "contains", "keys"})
       => \A k \in coll_last.seen : coll_last.time <= born[k] + coll.ttl

----------------------------------------------------------------------------
(* Properties of the presence sweep                                        *)

\* C29: the presence sweep disconnects a connection if and only if its last
\* activity (connect, subscribe or inbound message) is older than twice the
\* heartbeat interval; a connection that keeps sending inbound messages is
\* never disconnected by the sweep.
C29_SweepOnlySilent ==
    sweep_last.op = "sweep" => sweep_last.swept = sweep_last.silent

----------------------------------------------------------------------------
(* Properties of a broadcast that is suspended in a send                   *)

\* C30: a broadcast iterates a copy of the subscriber set, so a subscribe,
\* unsubscribe or disconnect on the project that runs while the broadcast is
\* suspended in a send never makes it fail, and every connection that is a
\* live subscriber from its start to its end gets a send attempt.
C30_BroadcastIteratesCopy ==
    [][(out'.flip # out.flip /\ out'.op = "broadcast")
         => LET targets == (out'.members \cap out'.live) \ {out'.exclude}
                subs == manager.project_subscribers
                members_now == IF out'.project \in DOMAIN subs.val
                               THEN subs.val[out'.project].data ELSE {}
                live_now == Range(BD_Cleanup(manager.active_connections,
                                             ACTIVE_TTL, now).keys)
            IN /\ ~out'.raised
               /\ (targets \cap members_now \cap live_now)
                     \subseteq Range(out'.sends)]_vars

----------------------------------------------------------------------------
(* Properties of the permissions of an expired credential                  *)

\* C35: has_permission(c, p) is never true at a time after the expiry of the
\* credential most recently bound to connection c.
C35_NoPermissionAfterExpiry ==
    \A c \in Clients : \A p \in Permissions :
        has_permission(auth, c, p) => now <= auth.connection_tokens[c].exp

----------------------------------------------------------------------------
(* Termination of the bounded collections                                  *)

\* C40: every assignment to a bounded map and every add to a bounded set of
\* capacity >= 1 terminates, also when the key is already present and the
\* container is full.
C40_AssignmentTerminates ==
    (coll.cap >= 1 /\ coll_last.op \in {"setitem", "add"}) => ~coll.hung

----------------------------------------------------------------------------
(* Properties of the outstanding conflicts                                 *)

\* C39: no request of the lock engine ever adds a conflict to a project's
\* outstanding set: the list of conflicts and the conflicts part of a sync
\* response are empty in every reachable state.
C39_NoConflictEver ==
    /\ \A p \in Projects : ConflictsOf(p) = <<>> /\ conflicts_data(p) = <<>>
    /\ last.op = "get_project_conflicts" => last.conflicts = <<>>

\* a lock-set has replaced the non-overridable lock of another user, and the
\* project's outstanding set is still empty
C39_Witness ==
    /\ last.op = "update_component_lock"
    /\ last.old # NoLock
    /\ ~last.old.canOverride
    /\ last.old.lockedBy # last.lock.lockedBy
    /\ conflicts_data(last.project) = <<>>

----------------------------------------------------------------------------
(* Properties of the keys of the lock table                                *)

\* C38: after any sequence of single lock-set and bulk operations, every
\* lock returned by get-all-locks under component key c has its componentId
\* attribute equal to c.
C38_KeyNamesComponent ==
    last.op = "get_project_locks" => \A e \in last.locks : e[2].componentId = e[1]

----------------------------------------------------------------------------
(* Properties of the override rule in bulk requests                        *)

\* the components a bulk request asks to lock
BulkLocked(operations) ==
    {BulkItems(operations)[i].componentId :
        i \in {j \in 1..Len(BulkItems(operations)) :
                  /\ BulkItems(operations)[j].type = "lock"
                  /\ BulkItems(operations)[j].lockLevel # None}}

\* C32: a bulk lock operation never replaces an existing lock that is not
\* overridable and is owned by another user than the requester: the
\* component keeps its lock and is not reported among the changed ones.
C32_BulkObeysOverride ==
    last.op = "bulk_update_locks"
      => \A c \in BulkLocked(last.operations) :
            \A old \in LocksAt(last.before, c) :
               (~old.canOverride /\ old.lockedBy # BulkUser)
                 => /\ LocksAt(LocksOf(last.project), c) = {old}
                    /\ c \notin Range(last.affected)

----------------------------------------------------------------------------
(* Properties of an admitted connection                                    *)

\* reads at time t find c in the live-connection map, with its liveness task
\* and its presence record
Admitted(m, t, c) ==
    /\ BD_Has(Observed(m, t).active_connections, c)
    /\ TaskOf(Observed(m, t), c) # NoTask
    /\ BD_Has(Observed(m, t).user_presence, c)

\* C33: a connection admitted to the registry stays in the live-connection
\* map, with its liveness task and presence record, until disconnect is
\* invoked for it: no admission of another connection and no passage of time
\* drops it.
C33_AdmittedUntilDisconnect ==
    [][\A c \in Clients :
          (Admitted(manager, now, c)
             /\ ~(reg_last'.op = "disconnect" /\ reg_last'.client = c))
            => Admitted(manager', now', c)]_vars

----------------------------------------------------------------------------
(* Properties of the endpoint loop                                         *)

\* C34: in every reachable state, every connection id contained in any
\* project's subscriber set is a registered live connection; a connection
\* that the registry has disconnected does not re-enter a subscriber set.
C34_SubscribersAreLive ==
    \A p \in Range(Observed(manager, now).project_subscribers.keys) :
       \A c \in Observed(manager, now).project_subscribers.val[p].data :
          BD_Has(Observed(manager, now).active_connections, c)

\* the messages c has sent number at most the configured maximum in every
\* window of 60 seconds
WithinBudget(c) ==
    \A i \in 1..Len(inbound_log[c]) :
       Cardinality(InWindow(inbound_log[c], inbound_log[c][i])) <= MAX_MESSAGES_PER_MINUTE

\* C36: the messages the server sends to a connection do not consume its
\* inbound message budget: a client that sends at most the configured
\* maximum of messages in every 60-second window is never answered with a
\* rate-limit error and never enters cooldown.
C36_ServerSendsFree ==
    \A c \in Clients :
       WithinBudget(c)
         => /\ (loop_last.client = c => loop_last.ok)
            /\ ~InCooldown(msg_limiter, c, now)

----------------------------------------------------------------------------
(* Properties of the sweep of the message limiter                          *)

\* C37: the periodic sweep of the rate limiter is invisible to callers: for
\* every sequence of message-rate checks, the allow/deny outcomes and the
\* cooldown lengths are the same with sweeps between the checks as without.
C37_SweepInvisible ==
    rate_last.op = "check"
       => /\ rate_last.ok = shadow_last.ok
          /\ rate_last.kind = shadow_last.kind
          /\ rate_last.remaining = shadow_last.remaining

----------------------------------------------------------------------------
(* Properties of the order of lock-set calls                               *)

\* every call issued has ended
Quiet ==
    /\ Len(calls) = MaxCalls
    /\ \A k \in DOMAIN calls : calls[k].pending = None

\* c was a live subscriber when each call began and still is one
SubscriberThroughout(c) ==
    /\ \A k \in DOMAIN calls : c \in calls[k].members
    /\ c \in MembersNow(manager)
    /\ BD_Has(manager.active_connections, c)

\* C31: two lock-set calls on the same component take effect in the lock
\* table in the order they were issued and every subscriber receives their
\* broadcasts in that order, so the last broadcast a subscriber receives
\* matches the final state of the lock table.
C31_IssueOrder ==
    /\ \A c \in Clients : \A i, j \in 1..Len(received[c]) :
          i < j => received[c][i] < received[c][j]
    /\ Quiet
         => /\ LocksAt(LocksOf(OrderProject), OrderComponent) = {calls[Len(calls)].lock}
            /\ \A c \in Clients :
                  (SubscriberThroughout(c) /\ received[c] # <<>>)
                    => calls[received[c][Len(received[c])]].lock
                          = calls[Len(calls)].lock

====
